---- MODULE Spec2Model ----
(***************************************************************************)
(* Model of rustbus' message body builder and parser                       *)
(* (rustbus/src/message_builder.rs), the dynamic container marshaller      *)
(* (src/wire/marshal/container.rs), the base Marshal impls                 *)
(* (rustbus/src/wire/marshal/traits/base.rs) and the raw validator         *)
(* (rustbus/src/wire/validate_raw.rs).                                     *)
(*                                                                         *)
(* Bytes are integers 0..255, a signature string is a sequence of          *)
(* one-character strings, a Unix fd handle is a small integer.             *)
(***************************************************************************)
EXTENDS Integers, Sequences, FiniteSets, TLC

VARIABLES byteorder, buf, raw_fds, sig, parsing, buf_idx, sig_idx, calls, pushed, last,
          typ, flags, dynheader, stage, bytes_used_counter

vars ==
  <<byteorder, buf, raw_fds, sig, parsing, buf_idx, sig_idx, calls, pushed, last,
    typ, flags, dynheader, stage, bytes_used_counter>>

\* ------------------------------------------------------------------ bounds
\* number of mutating calls (push_*, reset) made on one body
MaxCalls == 2

\* ------------------------------------------------------------- wire basics
ByteOrders == {"LittleEndian", "BigEndian"}

\* `let x = e; body`: e is evaluated once and the body applied to its value
Let(x, Body1(_)) == CHOOSE y \in {Body1(v) : v \in {x}} : TRUE

\* `let x = e; body` in a predicate that assigns
LetStep(x, Body1(_)) == Body1(x)

Zeros(n) == [i \in 1..n |-> 0]

Reverse(s) == [i \in 1..Len(s) |-> s[Len(s) + 1 - i]]

\* the tail s[i+1..] of a sequence (Rust's &s[i..])
From(s, i) == SubSeq(s, i + 1, Len(s))

\* number of bytes needed to bring position n to a multiple of al
PadLen(al, n) == (al - (n % al)) % al

\* pad_to_align / MarshalContext::align_to: append zero bytes
pad_to_align(al, b) == b \o Zeros(PadLen(al, Len(b)))

\* the four bytes of a u32 in the given byte order (values stay below 2^31)
U32Bytes(bo, v) ==
  LET le == <<v % 256, (v \div 256) % 256, (v \div 65536) % 256, (v \div 16777216) % 256>>
  IN IF bo = "LittleEndian" THEN le ELSE Reverse(le)

\* the eight bytes of a u64 given as its low and high 32-bit halves
U64Bytes(bo, v) ==
  LET le == U32Bytes("LittleEndian", v[1]) \o U32Bytes("LittleEndian", v[2])
  IN IF bo = "LittleEndian" THEN le ELSE Reverse(le)

write_u32(v, bo, b) == b \o U32Bytes(bo, v)

write_u64(v, bo, b) == b \o U64Bytes(bo, v)

\* util::write_string: u32 length, the bytes, one NUL
write_string(s, bo, b) == b \o U32Bytes(bo, Len(s)) \o s \o <<0>>

\* insert_u32: overwrite b[pos+1 .. pos+4] with the u32
insert_u32(bo, v, b, pos) ==
  [i \in 1..Len(b) |-> IF i > pos /\ i <= pos + 4 THEN U32Bytes(bo, v)[i - pos] ELSE b[i]]

\* one signature character as the byte written to the wire
CharByte(c) ==
  CASE c = "y" -> 121 [] c = "b" -> 98 [] c = "u" -> 117 [] c = "t" -> 116
    [] c = "s" -> 115 [] c = "h" -> 104 [] c = "a" -> 97 [] c = "v" -> 118
    [] c = "(" -> 40 [] c = ")" -> 41 [] c = "{" -> 123 [] c = "}" -> 125
    [] OTHER -> 63

SigChars == {"y", "b", "u", "t", "s", "h", "a", "v", "(", ")", "{", "}"}

ByteChar(n) ==
  IF \E c \in SigChars : CharByte(c) = n
  THEN CHOOSE c \in SigChars : CharByte(c) = n
  ELSE "?"

\* util::write_signature: u8 length, the characters, one NUL
write_signature(s, b) == b \o <<Len(s)>> \o [i \in 1..Len(s) |-> CharByte(s[i])] \o <<0>>

\* --------------------------------------------------------- signature types
BaseT(c) == [k |-> "base", c |-> c, sub |-> <<>>]
ArrayT(e) == [k |-> "array", c |-> "a", sub |-> <<e>>]
StructT(fs) == [k |-> "struct", c |-> "(", sub |-> fs]
DictT(kt, vt) == [k |-> "dict", c |-> "{", sub |-> <<kt, vt>>]
VariantT == [k |-> "variant", c |-> "v", sub |-> <<>>]

BaseChars == {"y", "b", "u", "t", "s", "h"}

\* signature::Type::get_alignment
get_alignment(t) ==
  CASE t.k = "base" /\ t.c = "y" -> 1
    [] t.k = "base" /\ t.c \in {"b", "u", "s", "h"} -> 4
    [] t.k = "base" /\ t.c = "t" -> 8
    [] t.k = "array" -> 4
    [] t.k = "dict" -> 4
    [] t.k = "struct" -> 8
    [] t.k = "variant" -> 1

\* signature::Type::bytes_always_valid
bytes_always_valid(t) == t.k = "base" /\ t.c \in {"y", "u", "t", "h"}

RECURSIVE to_str(_), to_str_all(_)
\* signature::Type::to_str: the signature string of a type
to_str(t) ==
  CASE t.k = "base" -> <<t.c>>
    [] t.k = "array" -> <<"a">> \o to_str(t.sub[1])
    [] t.k = "dict" -> <<"a", "{">> \o to_str(t.sub[1]) \o to_str(t.sub[2]) \o <<"}">>
    [] t.k = "struct" -> <<"(">> \o to_str_all(t.sub) \o <<")">>
    [] t.k = "variant" -> <<"v">>

to_str_all(ts) == IF ts = <<>> THEN <<>> ELSE to_str(Head(ts)) \o to_str_all(Tail(ts))

\* ------------------------------------------------------------------ values
\* A value is [k, c, v, sub, dsig]: k its kind, c the signature character of a
\* base value, v its payload as a sequence of integers (the number, the low
\* and high half of a u64, the bytes of a string, the fd handle), sub the contained values (struct fields, array
\* elements, dict keys and values alternating, the variant's value) and dsig
\* the declared signatures (array: element_sig; dict: key_sig, value_sig;
\* variant: sig).  Kind "err" is a Marshal implementation with signature c
\* whose marshal returns Err.
Val(k, c, v, sub, dsig) == [k |-> k, c |-> c, v |-> v, sub |-> sub, dsig |-> dsig]

U8(n) == Val("base", "y", <<n>>, <<>>, <<>>)
U32(n) == Val("base", "u", <<n>>, <<>>, <<>>)
U64(n) == Val("base", "t", <<n, 0>>, <<>>, <<>>)
Bool(n) == Val("base", "b", <<n>>, <<>>, <<>>)
Str(s) == Val("base", "s", s, <<>>, <<>>)
Fd(n) == Val("base", "h", <<n>>, <<>>, <<>>)
Failing(c) == Val("err", c, <<>>, <<>>, <<>>)
Struct(fs) == Val("struct", "(", <<>>, fs, <<>>)
Array(es, vs) == Val("array", "a", <<>>, vs, <<es>>)
Dict(ks, vs, kvs) == Val("dict", "{", <<>>, kvs, <<ks, vs>>)
Variant(s, x) == Val("variant", "v", <<>>, <<x>>, <<s>>)

RECURSIVE signature(_), signature_all(_)
\* Signature::signature() of a typed value, Param::sig() of a dynamic one: the
\* declared type, never computed from the contents of an array, dict or variant
signature(p) ==
  CASE p.k \in {"base", "err"} -> BaseT(p.c)
    [] p.k = "struct" -> StructT(signature_all(p.sub))
    [] p.k = "array" -> ArrayT(p.dsig[1])
    [] p.k = "dict" -> DictT(p.dsig[1], p.dsig[2])
    [] p.k = "variant" -> VariantT

signature_all(ps) ==
  IF ps = <<>> THEN <<>> ELSE <<signature(Head(ps))>> \o signature_all(Tail(ps))

\* Signature::sig_str: the characters a typed value appends to a signature buffer
sig_str(p) == to_str(signature(p))

\* ------------------------------------------------------- typed marshalling
\* A marshal context is [ok, buf, fds, byteorder]; a marshal returns the
\* context as it left it, ok = FALSE standing for Err(..).  The context holds
\* &mut references, so what was written before an Err stays written.
Ctx(b, f, bo) == [ok |-> TRUE, buf |-> b, fds |-> f, byteorder |-> bo]

\* a byte marshalled as if it were aligned to 4
marshal_u8_padded(v, ctx) == [ctx EXCEPT !.buf = Append(pad_to_align(4, @), v)]

marshal_u8(v, ctx) == [ctx EXCEPT !.buf = Append(@, v)]

marshal_u32(v, ctx) == [ctx EXCEPT !.buf = write_u32(v, ctx.byteorder, pad_to_align(4, @))]

marshal_u64(v, ctx) == [ctx EXCEPT !.buf = write_u64(v, ctx.byteorder, pad_to_align(8, @))]

marshal_bool(v, ctx) == marshal_u32(v, ctx)

marshal_str(s, ctx) == [ctx EXCEPT !.buf = write_string(s, ctx.byteorder, pad_to_align(4, @))]

\* Marshal for UnixFd: the fd list is extended and the new index written as u32
marshal_unixfd(fd, ctx) ==
  [ctx EXCEPT !.fds = Append(@, fd),
              !.buf = write_u32(Len(ctx.fds), ctx.byteorder, pad_to_align(4, @))]

\* Marshal for SignatureWrapper
marshal_sigwrapper(s, ctx) == [ctx EXCEPT !.buf = write_signature(s, @)]

marshal_base(p, ctx) ==
  CASE p.c = "y" -> marshal_u8(p.v[1], ctx)
    [] p.c = "u" -> marshal_u32(p.v[1], ctx)
    [] p.c = "t" -> marshal_u64(p.v, ctx)
    [] p.c = "b" -> marshal_bool(p.v[1], ctx)
    [] p.c = "s" -> marshal_str(p.v, ctx)
    [] p.c = "h" -> marshal_unixfd(p.v[1], ctx)

\* `e?` on a marshal result: go on with the context of an Ok, return an Err
Try(r, Rest(_)) == IF r.ok THEN Rest(r) ELSE r

RECURSIVE marshal(_, _), marshal_fields(_, _), marshal_dict(_, _)
\* P::marshal for the typed values: base values, an implementation that fails,
\* a struct written as the Marshal impl of a user struct is (align to 8,
\* then each field's marshal with `?`), and a map, written as a{KV} with the
\* bytes the dynamic layer writes for a dict
marshal(p, ctx) ==
  CASE p.k = "err" -> [ctx EXCEPT !.ok = FALSE]
    [] p.k = "base" -> marshal_base(p, ctx)
    [] p.k = "struct" -> marshal_fields(p.sub, [ctx EXCEPT !.buf = pad_to_align(8, @)])
    [] p.k = "dict" -> marshal_dict(p.sub, ctx)

marshal_fields(ps, ctx) ==
  IF ps = <<>> THEN ctx
  ELSE Try(marshal(Head(ps), ctx), LAMBDA r : marshal_fields(Tail(ps), r))

\* marshal_as_variant: the signature of P as a signature field, then the value
marshal_as_variant(p, ctx) ==
  Try(marshal_sigwrapper(sig_str(p), ctx), LAMBDA c1 : marshal(p, c1))

\* ----------------------------------------------------- dynamic marshalling
\* params::validate_array: every element's signature is the declared one
validate_array(values, esig) == \A i \in 1..Len(values) : signature(values[i]) = esig

\* params::validate_dict: every key and value has the declared signature
validate_dict(kvs, ksig, vsig) ==
  \A i \in 1..Len(kvs) : signature(kvs[i]) = (IF i % 2 = 1 THEN ksig ELSE vsig)

\* marshal_base_param: the same bytes as the typed layer writes
marshal_base_param(p, ctx) == marshal_base(p, ctx)

\* marshal_signature
marshal_signature(s, ctx) == [ctx EXCEPT !.buf = write_signature(s, @)]

RECURSIVE marshal_param(_, _), marshal_params(_, _), marshal_array(_, _, _), marshal_struct(_, _)
RECURSIVE marshal_variant(_, _), marshal_entries(_, _), marshal_container_param(_, _)

marshal_param(p, ctx) ==
  IF p.k = "base" THEN marshal_base_param(p, ctx) ELSE marshal_container_param(p, ctx)

\* `for p in ps { marshal_param(&p, ctx)?; }`
marshal_params(ps, ctx) ==
  IF ps = <<>> THEN ctx
  ELSE Try(marshal_param(Head(ps), ctx), LAMBDA r : marshal_params(Tail(ps), r))

\* a length counted from the end of the placeholder, so that the padding
\* before the first element is part of it
write_len_from_placeholder(len_pos, content_pos, r) ==
  [r EXCEPT !.buf = insert_u32(r.byteorder, Len(r.buf) - (len_pos + 4), @, len_pos)]

\* the length placeholder at len_pos filled with the bytes written since content_pos
write_len(len_pos, content_pos, r) ==
  [r EXCEPT !.buf = insert_u32(r.byteorder, Len(r.buf) - content_pos, @, len_pos)]

marshal_array(array, esig, ctx) ==
  Let(pad_to_align(4, ctx.buf), LAMBDA b1 :
    Let(pad_to_align(get_alignment(esig), b1 \o Zeros(4)), LAMBDA b2 :
      Try(marshal_params(array, [ctx EXCEPT !.buf = b2]),
          LAMBDA r : write_len(Len(b1), Len(b2), r))))

marshal_struct(params, ctx) == marshal_params(params, [ctx EXCEPT !.buf = pad_to_align(8, @)])

marshal_variant(var, ctx) ==
  Try(marshal_signature(to_str(var.dsig[1]), ctx), LAMBDA c1 : marshal_param(var.sub[1], c1))

\* `for (key, value) in dict { pad; marshal_base_param(key)?; marshal_param(value)?; }`
marshal_entries(kvs, ctx) ==
  IF kvs = <<>> THEN ctx
  ELSE Try(marshal_base_param(kvs[1], [ctx EXCEPT !.buf = pad_to_align(8, @)]), LAMBDA k1 :
         Try(marshal_param(kvs[2], k1), LAMBDA v1 :
           marshal_entries(SubSeq(kvs, 3, Len(kvs)), v1)))

marshal_dict(kvs, ctx) ==
  Let(pad_to_align(4, ctx.buf), LAMBDA b1 :
    Let(pad_to_align(8, b1 \o Zeros(4)), LAMBDA b2 :
      Try(marshal_entries(kvs, [ctx EXCEPT !.buf = b2]),
          LAMBDA r : write_len(Len(b1), Len(b2), r))))

marshal_container_param(p, ctx) ==
  CASE p.k = "array" ->
         IF validate_array(p.sub, p.dsig[1])
         THEN marshal_array(p.sub, p.dsig[1], ctx)
         ELSE [ctx EXCEPT !.ok = FALSE]
    [] p.k = "struct" -> marshal_struct(p.sub, ctx)
    [] p.k = "dict" ->
         IF validate_dict(p.sub, p.dsig[1], p.dsig[2])
         THEN marshal_dict(p.sub, ctx)
         ELSE [ctx EXCEPT !.ok = FALSE]
    [] p.k = "variant" -> marshal_variant(p, ctx)

\* ------------------------------------------------------ signature parsing
\* the longest signature string the signature grammar accepts
MaxSignatureLen == 255

NoParse == [ok |-> FALSE, t |-> VariantT, ts |-> <<>>, next |-> 0]

POk(t, ts, next) == [ok |-> TRUE, t |-> t, ts |-> ts, next |-> next]

RECURSIVE parse_one(_, _), parse_fields(_, _, _), parse_all(_, _, _)
\* one complete type starting at s[i]: [ok, t, next]
parse_one(s, i) ==
  IF i > Len(s) THEN NoParse
  ELSE
    CASE s[i] \in BaseChars -> POk(BaseT(s[i]), <<>>, i + 1)
      [] s[i] = "v" -> POk(VariantT, <<>>, i + 1)
      [] s[i] = "a" ->
           IF i + 1 <= Len(s) /\ s[i + 1] = "{"
           THEN IF i + 2 <= Len(s) /\ s[i + 2] \in BaseChars
                THEN Let(parse_one(s, i + 3), LAMBDA val :
                       IF val.ok /\ val.next <= Len(s) /\ s[val.next] = "}"
                       THEN POk(DictT(BaseT(s[i + 2]), val.t), <<>>, val.next + 1)
                       ELSE NoParse)
                ELSE NoParse
           ELSE Let(parse_one(s, i + 1), LAMBDA e :
                  IF e.ok THEN POk(ArrayT(e.t), <<>>, e.next) ELSE NoParse)
      [] s[i] = "(" ->
           Let(parse_fields(s, i + 1, <<>>), LAMBDA f :
             IF f.ok /\ Len(f.ts) >= 1 THEN POk(StructT(f.ts), <<>>, f.next) ELSE NoParse)
      [] OTHER -> NoParse

\* the fields of a struct up to its closing parenthesis: [ok, ts, next]
parse_fields(s, i, acc) ==
  IF i > Len(s) THEN NoParse
  ELSE IF s[i] = ")" THEN POk(VariantT, acc, i + 1)
  ELSE Let(parse_one(s, i), LAMBDA r :
         IF r.ok THEN parse_fields(s, r.next, Append(acc, r.t)) ELSE NoParse)

parse_all(s, i, acc) ==
  IF i > Len(s) THEN POk(VariantT, acc, i)
  ELSE Let(parse_one(s, i), LAMBDA r :
         IF r.ok THEN parse_all(s, r.next, Append(acc, r.t)) ELSE NoParse)

\* signature::Type::parse_description: the top-level types of a signature string
parse_description(s) == IF Len(s) > MaxSignatureLen THEN NoParse ELSE parse_all(s, 1, <<>>)

\* params::validate_signature
validate_signature(s) == parse_description(s).ok

\* SignatureIter::new_at_idx(sig, idx).next(): the next top-level token, <<>> for None
get_next_sig_at(s, idx) ==
  Let(parse_one(s, idx + 1), LAMBDA r :
    IF idx < Len(s) /\ r.ok THEN SubSeq(s, idx + 1, r.next - 1) ELSE <<>>)

RECURSIVE sigs_left_at(_, _)
\* SignatureIter::new_at_idx(sig, idx).count()
sigs_left_at(s, idx) ==
  Let(get_next_sig_at(s, idx), LAMBDA tok :
    IF tok = <<>> THEN 0 ELSE 1 + sigs_left_at(s, idx + Len(tok)))

\* ----------------------------------------------------------- raw validator
\* A validation result is [ok, n, err]: Ok(n) bytes used, or Err((n, err)) at
\* position n.  err = "panic" is an index or slice out of range.
VOk(n) == [ok |-> TRUE, n |-> n, err |-> ""]
VErr(pos, e) == [ok |-> FALSE, n |-> pos, err |-> e]

\* util::align_offset when parsing: the padding, which must exist and be zero
align_offset(al, b, offset) ==
  LET padding == PadLen(al, offset)
  IN IF offset + padding > Len(b) THEN VErr(offset, "NotEnoughBytes")
     ELSE IF \E x \in 0..(padding - 1) : b[offset + x + 1] # 0
          THEN VErr(offset, "PaddingContainedData")
          ELSE VOk(padding)

\* the u32 stored in the first four bytes of s
U32Value(bo, s) ==
  LET le == IF bo = "LittleEndian" THEN SubSeq(s, 1, 4) ELSE Reverse(SubSeq(s, 1, 4))
  IN le[1] + 256 * le[2] + 65536 * le[3] + 16777216 * le[4]

\* util::parse_u32
parse_u32(s, bo) == IF Len(s) < 4 THEN VErr(0, "NotEnoughBytes") ELSE VOk(U32Value(bo, s))

SOk(n, str) == [ok |-> TRUE, n |-> n, err |-> "", str |-> str]
SErr(e) == [ok |-> FALSE, n |-> 0, err |-> e, str |-> <<>>]

\* util::unmarshal_str: [ok, n, err, str], n the bytes used (length + 5)
unmarshal_str(bo, s) ==
  Let(parse_u32(s, bo), LAMBDA l :
    IF ~l.ok THEN SErr("NotEnoughBytes")
    ELSE IF Len(s) < l.n + 5 THEN SErr("NotEnoughBytes")
    ELSE IF \E i \in 5..(4 + l.n) : s[i] >= 128 THEN SErr("InvalidUtf8")
    ELSE IF s[l.n + 5] # 0 \/ \E i \in 5..(4 + l.n) : s[i] = 0
         THEN SErr("StringContainsNullByte")
    ELSE SOk(l.n + 5, SubSeq(s, 5, 4 + l.n)))

\* util::unmarshal_signature: [ok, n, err, str], n the bytes used (length + 2)
unmarshal_signature(s) ==
  IF Len(s) < 1 \/ Len(s) < s[1] + 2 THEN SErr("NotEnoughBytes")
  ELSE SOk(s[1] + 2, [i \in 1..s[1] |-> ByteChar(s[i + 1])])

\* the fixed width of a base type other than string and signature
FixedWidth(c) == CASE c = "y" -> 1 [] c \in {"u", "h", "b"} -> 4 [] c = "t" -> 8

\* Ok(k + n) for Ok(n), an Err as it is
VAdd(k, r) == IF r.ok THEN VOk(k + r.n) ELSE r

\* a padding error reported at the aligned position, where the value starts
validate_marshalled_base_at_value(bo, offset, b, c) ==
  Let(align_offset(get_alignment(BaseT(c)), b, offset), LAMBDA pad :
    IF ~pad.ok THEN VErr(offset + PadLen(get_alignment(BaseT(c)), offset), pad.err)
    ELSE
      CASE c \in {"y", "u", "h", "t"} ->
             IF Len(b) - (offset + pad.n) < FixedWidth(c)
             THEN VErr(offset + pad.n, "NotEnoughBytes")
             ELSE VOk(FixedWidth(c) + pad.n)
        [] c = "b" ->
             IF Len(b) - (offset + pad.n) < 4
             THEN VErr(offset + pad.n, "NotEnoughBytes")
             ELSE IF U32Value(bo, From(b, offset + pad.n)) \in {0, 1}
                  THEN VOk(4 + pad.n)
                  ELSE VErr(offset + pad.n, "InvalidBoolean")
        [] c = "s" ->
             Let(unmarshal_str(bo, From(b, offset + pad.n)), LAMBDA r :
               IF r.ok THEN VOk(r.n + pad.n) ELSE VErr(offset + pad.n, r.err)))

validate_marshalled_base(bo, offset, b, c) ==
  Let(align_offset(get_alignment(BaseT(c)), b, offset), LAMBDA pad :
    IF ~pad.ok THEN VErr(offset, pad.err)
    ELSE
      CASE c \in {"y", "u", "h", "t"} ->
             IF Len(b) - (offset + pad.n) < FixedWidth(c)
             THEN VErr(offset + pad.n, "NotEnoughBytes")
             ELSE VOk(FixedWidth(c) + pad.n)
        [] c = "b" ->
             IF Len(b) - (offset + pad.n) < 4
             THEN VErr(offset + pad.n, "NotEnoughBytes")
             ELSE IF U32Value(bo, From(b, offset + pad.n)) \in {0, 1}
                  THEN VOk(4 + pad.n)
                  ELSE VErr(offset + pad.n, "InvalidBoolean")
        [] c = "s" ->
             Let(unmarshal_str(bo, From(b, offset + pad.n)), LAMBDA r :
               IF r.ok THEN VOk(r.n + pad.n) ELSE VErr(offset + pad.n, r.err)))

RECURSIVE validate_marshalled(_, _, _, _), validate_marshalled_container(_, _, _, _)
RECURSIVE validate_array_elems(_, _, _, _, _, _), validate_dict_entries(_, _, _, _, _, _)
RECURSIVE validate_struct_fields(_, _, _, _, _)

validate_marshalled(bo, offset, raw, t) ==
  IF t.k = "base" THEN validate_marshalled_base(bo, offset, raw, t.c)
  ELSE validate_marshalled_container(bo, offset, raw, t)

\* `while bytes_used_counter < bytes_in_array { validate_marshalled(..)? }`
validate_array_elems(bo, offset, b, esig, counter, bytes_in_array) ==
  IF counter >= bytes_in_array THEN VOk(counter)
  ELSE Let(validate_marshalled(bo, offset + counter, b, esig), LAMBDA r :
         IF r.ok
         THEN validate_array_elems(bo, offset, b, esig, counter + r.n, bytes_in_array)
         ELSE r)

\* `while bytes_used_counter < bytes_in_dict { pad; key?; value? }`
validate_dict_entries(bo, offset, b, t, counter, bytes_in_dict) ==
  IF counter >= bytes_in_dict THEN VOk(counter)
  ELSE Let(align_offset(8, b, offset + counter), LAMBDA pad :
         IF ~pad.ok THEN VErr(offset + counter, pad.err)
         ELSE Let(validate_marshalled_base(bo, offset + counter + pad.n, b, t.sub[1].c), LAMBDA key :
           IF ~key.ok THEN key
           ELSE Let(validate_marshalled(bo, offset + counter + pad.n + key.n, b, t.sub[2]), LAMBDA val :
             IF ~val.ok THEN val
             ELSE validate_dict_entries(bo, offset, b, t, counter + pad.n + key.n + val.n,
                                        bytes_in_dict))))

\* `for field_sig in sigs { validate_marshalled(..)? }`
validate_struct_fields(bo, offset, b, fs, counter) ==
  IF fs = <<>> THEN VOk(counter)
  ELSE Let(validate_marshalled(bo, offset + counter, b, Head(fs)), LAMBDA r :
         IF r.ok THEN validate_struct_fields(bo, offset, b, Tail(fs), counter + r.n) ELSE r)

\* the elements walked in the whole buffer, not in the part that ends with
\* the array
validate_array_contents_untrimmed(bo, offset, b, esig, bytes_in_array) ==
  IF bytes_always_valid(esig)
  THEN IF bytes_in_array % get_alignment(esig) # 0
       THEN VErr(offset, "NotEnoughBytes")
       ELSE VOk(bytes_in_array)
  ELSE Let(validate_array_elems(bo, offset, b, esig, 0, bytes_in_array), LAMBDA r :
         IF r.ok THEN VOk(bytes_in_array) ELSE r)

\* elements that are always valid accepted whatever the length
validate_array_contents_any_length(bo, offset, b, esig, bytes_in_array) ==
  IF bytes_always_valid(esig)
  THEN VOk(bytes_in_array)
  ELSE Let(validate_array_elems(bo, offset, SubSeq(b, 1, offset + bytes_in_array), esig, 0,
                                bytes_in_array), LAMBDA r :
         IF r.ok THEN VOk(bytes_in_array) ELSE r)

\* the contents of an array of bytes_in_array bytes starting at offset
validate_array_contents(bo, offset, b, esig, bytes_in_array) ==
  IF bytes_always_valid(esig)
  THEN IF bytes_in_array % get_alignment(esig) # 0
       THEN VErr(offset, "NotEnoughBytes")
       ELSE VOk(bytes_in_array)
  ELSE Let(validate_array_elems(bo, offset, SubSeq(b, 1, offset + bytes_in_array), esig, 0,
                                bytes_in_array), LAMBDA r :
         IF r.ok THEN VOk(bytes_in_array) ELSE r)

\* the length compared with the bytes behind the padding only, not before
\* with the bytes behind the length field
validate_marshalled_container_one_check(bo, offset0, b, t) ==
  CASE t.k \in {"array", "dict"} ->
         Let(align_offset(4, b, offset0), LAMBDA pad :
           IF ~pad.ok THEN VErr(offset0, pad.err)
           ELSE Let(parse_u32(From(b, offset0 + pad.n), bo), LAMBDA len :
             IF ~len.ok THEN VErr(offset0 + pad.n, len.err)
             ELSE Let(offset0 + pad.n + 4, LAMBDA offset2 :
               Let(align_offset(IF t.k = "array" THEN get_alignment(t.sub[1]) ELSE 8,
                                     b, offset2), LAMBDA fpad :
                 IF ~fpad.ok THEN VErr(offset2, fpad.err)
                 ELSE Let(offset2 + fpad.n, LAMBDA offset :
                   IF Len(b) - offset < len.n THEN VErr(offset, "NotEnoughBytesForCollection")
                   ELSE VAdd(pad.n + 4 + fpad.n,
                             IF t.k = "array"
                             THEN validate_array_contents(bo, offset, b, t.sub[1], len.n)
                             ELSE validate_dict_entries(bo, offset, SubSeq(b, 1, offset + len.n),
                                                        t, 0, len.n)))))))
    [] t.k = "struct" ->
         Let(align_offset(8, b, offset0), LAMBDA pad :
           IF ~pad.ok THEN VErr(offset0, pad.err)
           ELSE VAdd(pad.n, validate_struct_fields(bo, offset0 + pad.n, b, t.sub, 0)))
    [] t.k = "variant" ->
         IF offset0 > Len(b) THEN VErr(offset0, "panic")
         ELSE Let(unmarshal_signature(From(b, offset0)), LAMBDA s :
           IF ~s.ok THEN VErr(offset0, s.err)
           ELSE Let(parse_description(s.str), LAMBDA ts :
             IF ~ts.ok THEN VErr(offset0, "InvalidSignature")
             ELSE IF Len(ts.ts) # 1 THEN VErr(offset0, "WrongSignature")
             ELSE VAdd(s.n, validate_marshalled(bo, offset0 + s.n, b, ts.ts[1]))))

\* the Variant arm takes the first type of the embedded signature, whatever
\* follows it
validate_marshalled_container_first_type(bo, offset0, b, t) ==
  CASE t.k \in {"array", "dict"} ->
         Let(align_offset(4, b, offset0), LAMBDA pad :
           IF ~pad.ok THEN VErr(offset0, pad.err)
           ELSE Let(parse_u32(From(b, offset0 + pad.n), bo), LAMBDA len :
             IF ~len.ok THEN VErr(offset0 + pad.n, len.err)
             ELSE Let(offset0 + pad.n + 4, LAMBDA offset2 :
               IF Len(b) - offset2 < len.n THEN VErr(offset2, "NotEnoughBytesForCollection")
               ELSE Let(align_offset(IF t.k = "array" THEN get_alignment(t.sub[1]) ELSE 8,
                                     b, offset2), LAMBDA fpad :
                 IF ~fpad.ok THEN VErr(offset2, fpad.err)
                 ELSE Let(offset2 + fpad.n, LAMBDA offset :
                   IF Len(b) - offset < len.n THEN VErr(offset, "NotEnoughBytesForCollection")
                   ELSE VAdd(pad.n + 4 + fpad.n,
                             IF t.k = "array"
                             THEN validate_array_contents(bo, offset, b, t.sub[1], len.n)
                             ELSE validate_dict_entries(bo, offset, SubSeq(b, 1, offset + len.n),
                                                        t, 0, len.n)))))))
    [] t.k = "struct" ->
         Let(align_offset(8, b, offset0), LAMBDA pad :
           IF ~pad.ok THEN VErr(offset0, pad.err)
           ELSE VAdd(pad.n, validate_struct_fields(bo, offset0 + pad.n, b, t.sub, 0)))
    [] t.k = "variant" ->
         IF offset0 > Len(b) THEN VErr(offset0, "panic")
         ELSE Let(unmarshal_signature(From(b, offset0)), LAMBDA s :
           IF ~s.ok THEN VErr(offset0, s.err)
           ELSE Let(parse_description(s.str), LAMBDA ts :
             IF ~ts.ok THEN VErr(offset0, "InvalidSignature")
             ELSE IF Len(ts.ts) < 1 THEN VErr(offset0, "WrongSignature")
             ELSE VAdd(s.n, validate_marshalled(bo, offset0 + s.n, b, ts.ts[1]))))

validate_marshalled_container(bo, offset0, b, t) ==
  CASE t.k \in {"array", "dict"} ->
         Let(align_offset(4, b, offset0), LAMBDA pad :
           IF ~pad.ok THEN VErr(offset0, pad.err)
           ELSE Let(parse_u32(From(b, offset0 + pad.n), bo), LAMBDA len :
             IF ~len.ok THEN VErr(offset0 + pad.n, len.err)
             ELSE Let(offset0 + pad.n + 4, LAMBDA offset2 :
               IF Len(b) - offset2 < len.n THEN VErr(offset2, "NotEnoughBytesForCollection")
               ELSE Let(align_offset(IF t.k = "array" THEN get_alignment(t.sub[1]) ELSE 8,
                                     b, offset2), LAMBDA fpad :
                 IF ~fpad.ok THEN VErr(offset2, fpad.err)
                 ELSE Let(offset2 + fpad.n, LAMBDA offset :
                   IF Len(b) - offset < len.n THEN VErr(offset, "NotEnoughBytesForCollection")
                   ELSE VAdd(pad.n + 4 + fpad.n,
                             IF t.k = "array"
                             THEN validate_array_contents(bo, offset, b, t.sub[1], len.n)
                             ELSE validate_dict_entries(bo, offset, SubSeq(b, 1, offset + len.n),
                                                        t, 0, len.n)))))))
    [] t.k = "struct" ->
         Let(align_offset(8, b, offset0), LAMBDA pad :
           IF ~pad.ok THEN VErr(offset0, pad.err)
           ELSE VAdd(pad.n, validate_struct_fields(bo, offset0 + pad.n, b, t.sub, 0)))
    [] t.k = "variant" ->
         IF offset0 > Len(b) THEN VErr(offset0, "panic")
         ELSE Let(unmarshal_signature(From(b, offset0)), LAMBDA s :
           IF ~s.ok THEN VErr(offset0, s.err)
           ELSE Let(parse_description(s.str), LAMBDA ts :
             IF ~ts.ok THEN VErr(offset0, "InvalidSignature")
             ELSE IF Len(ts.ts) # 1 THEN VErr(offset0, "WrongSignature")
             ELSE VAdd(s.n, validate_marshalled(bo, offset0 + s.n, b, ts.ts[1]))))

\* validate_marshalled_container up to the contents of an array or dict:
\* an Err, or the bytes n before the contents, the offset where the contents
\* start and their declared length
collection_header(bo, offset0, b, t) ==
  Let(align_offset(4, b, offset0), LAMBDA pad :
    IF ~pad.ok THEN VErr(offset0, pad.err)
    ELSE Let(parse_u32(From(b, offset0 + pad.n), bo), LAMBDA len :
      IF ~len.ok THEN VErr(offset0 + pad.n, len.err)
      ELSE Let(offset0 + pad.n + 4, LAMBDA offset2 :
        IF Len(b) - offset2 < len.n THEN VErr(offset2, "NotEnoughBytesForCollection")
        ELSE Let(align_offset(IF t.k = "array" THEN get_alignment(t.sub[1]) ELSE 8,
                              b, offset2), LAMBDA fpad :
          IF ~fpad.ok THEN VErr(offset2, fpad.err)
          ELSE IF Len(b) - (offset2 + fpad.n) < len.n
               THEN VErr(offset2 + fpad.n, "NotEnoughBytesForCollection")
          ELSE [ok |-> TRUE, n |-> pad.n + 4 + fpad.n, err |-> "",
                offset |-> offset2 + fpad.n, len |-> len.n]))))

\* an iteration that validates the first element again and leaves the
\* counter as it is
array_iteration_at_start(bo, offset, b, esig, counter) ==
  Let(validate_marshalled(bo, offset, b, esig), LAMBDA r :
    IF r.ok THEN VOk(counter) ELSE r)

\* one iteration of the Array arm's while loop: the counter after it, or the
\* Err of `?`
array_iteration(bo, offset, b, esig, counter) ==
  Let(validate_marshalled(bo, offset + counter, b, esig), LAMBDA r :
    IF r.ok THEN VOk(counter + r.n) ELSE r)

\* one iteration of the Dict arm's while loop: the counter after it, or the
\* Err of `?`
dict_iteration(bo, offset, b, t, counter) ==
  Let(align_offset(8, b, offset + counter), LAMBDA pad :
    IF ~pad.ok THEN VErr(offset + counter, pad.err)
    ELSE Let(validate_marshalled_base(bo, offset + counter + pad.n, b, t.sub[1].c), LAMBDA key :
      IF ~key.ok THEN key
      ELSE Let(validate_marshalled(bo, offset + counter + pad.n + key.n, b, t.sub[2]), LAMBDA val :
        IF ~val.ok THEN val
        ELSE VOk(counter + pad.n + key.n + val.n))))

RECURSIVE validate_types(_, _, _, _)
\* `for typ in types { used += validate_marshalled(byteorder, used, &buf, &typ)?; }`
validate_types(bo, b, ts, used) ==
  IF ts = <<>> THEN VOk(used)
  ELSE Let(validate_marshalled(bo, used, b, Head(ts)), LAMBDA r :
         IF r.ok THEN validate_types(bo, b, Tail(ts), used + r.n) ELSE r)

\* a body accepted when the types end inside the buffer, bytes behind them
\* or not
validate_allows_rest(body) ==
  IF body.sig = <<>> /\ body.buf = <<>> THEN VOk(0)
  ELSE Let(parse_description(body.sig), LAMBDA types :
         IF ~types.ok THEN VErr(0, "InvalidSignature")
         ELSE Let(validate_types(body.byteorder, body.buf, types.ts, 0), LAMBDA r :
           IF ~r.ok THEN r
           ELSE IF r.n <= Len(body.buf) THEN VOk(r.n)
           ELSE VErr(r.n, "NotAllBytesUsed")))

\* MarshalledMessageBody::validate
validate(body) ==
  IF body.sig = <<>> /\ body.buf = <<>> THEN VOk(0)
  ELSE Let(parse_description(body.sig), LAMBDA types :
         IF ~types.ok THEN VErr(0, "InvalidSignature")
         ELSE Let(validate_types(body.byteorder, body.buf, types.ts, 0), LAMBDA r :
           IF ~r.ok THEN r
           ELSE IF r.n = Len(body.buf) THEN VOk(r.n)
           ELSE VErr(r.n, "NotAllBytesUsed")))

\* ------------------------------------------------------------ unmarshalling
\* An unmarshal result is [ok, n, err, val]: Ok((n, val)) with n the bytes
\* consumed (padding included), or Err(err).
UOk(n, val) == [ok |-> TRUE, n |-> n, err |-> "", val |-> val]
UErr(e) == [ok |-> FALSE, n |-> 0, err |-> e, val |-> U8(0)]

unmarshal_base(c, bo, b, offset, fds) ==
  Let(align_offset(get_alignment(BaseT(c)), b, offset), LAMBDA pad :
    IF ~pad.ok THEN UErr(pad.err)
    ELSE Let(From(b, offset + pad.n), LAMBDA rest :
      CASE c = "y" -> IF Len(rest) < 1 THEN UErr("NotEnoughBytes") ELSE UOk(pad.n + 1, U8(rest[1]))
        [] c = "u" -> IF Len(rest) < 4 THEN UErr("NotEnoughBytes")
                      ELSE UOk(pad.n + 4, U32(U32Value(bo, rest)))
        [] c = "t" -> IF Len(rest) < 8 THEN UErr("NotEnoughBytes")
                      ELSE Let(IF bo = "LittleEndian" THEN SubSeq(rest, 1, 8)
                               ELSE Reverse(SubSeq(rest, 1, 8)), LAMBDA le :
                             UOk(pad.n + 8,
                                 Val("base", "t",
                                     <<U32Value("LittleEndian", le),
                                       U32Value("LittleEndian", From(le, 4))>>, <<>>, <<>>)))
        [] c = "b" -> IF Len(rest) < 4 THEN UErr("NotEnoughBytes")
                      ELSE IF U32Value(bo, rest) \in {0, 1}
                           THEN UOk(pad.n + 4, Bool(U32Value(bo, rest)))
                           ELSE UErr("InvalidBoolean")
        [] c = "s" -> Let(unmarshal_str(bo, rest), LAMBDA r :
                        IF r.ok THEN UOk(pad.n + r.n, Str(r.str)) ELSE UErr(r.err))
        [] c = "h" -> IF Len(rest) < 4 THEN UErr("NotEnoughBytes")
                      ELSE IF U32Value(bo, rest) >= Len(fds) THEN UErr("BadFdIndex")
                           ELSE UOk(pad.n + 4, Fd(fds[U32Value(bo, rest) + 1]))))

\* Ok((k + n, val)) for Ok((n, val)), an Err as it is
UAdd(k, r) == IF r.ok THEN UOk(k + r.n, r.val) ELSE r

RECURSIVE unmarshal(_, _, _, _, _), unmarshal_fields(_, _, _, _, _, _, _)
RECURSIVE unmarshal_elems(_, _, _, _, _, _, _, _), unmarshal_entries(_, _, _, _, _, _, _, _)

\* the fields of a struct, one after the other
unmarshal_fields(ts, bo, b, offset, fds, counter, acc) ==
  IF ts = <<>> THEN UOk(counter, Struct(acc))
  ELSE Let(unmarshal(Head(ts), bo, b, offset + counter, fds),
           LAMBDA r : IF r.ok
                      THEN unmarshal_fields(Tail(ts), bo, b, offset, fds, counter + r.n,
                                            Append(acc, r.val))
                      ELSE r)

\* the elements of an array until its declared length is used up
unmarshal_elems(t, bo, b, offset, fds, counter, len, acc) ==
  IF counter >= len THEN UOk(counter, Array(t, acc))
  ELSE Let(unmarshal(t, bo, b, offset + counter, fds),
           LAMBDA r : IF r.ok
                      THEN unmarshal_elems(t, bo, b, offset, fds, counter + r.n, len,
                                           Append(acc, r.val))
                      ELSE r)

\* the entries of a dict until its declared length is used up
unmarshal_entries(t, bo, b, offset, fds, counter, len, acc) ==
  IF counter >= len THEN UOk(counter, Dict(t.sub[1], t.sub[2], acc))
  ELSE Let(align_offset(8, b, offset + counter), LAMBDA pad :
         IF ~pad.ok THEN UErr(pad.err)
         ELSE Let(unmarshal_base(t.sub[1].c, bo, b, offset + counter + pad.n, fds), LAMBDA key :
           IF ~key.ok THEN key
           ELSE Let(unmarshal(t.sub[2], bo, b, offset + counter + pad.n + key.n, fds), LAMBDA val :
             IF ~val.ok THEN val
             ELSE unmarshal_entries(t, bo, b, offset, fds, counter + pad.n + key.n + val.n, len,
                                    acc \o <<key.val, val.val>>))))

\* T::unmarshal for the type T, and unmarshal_with_sig for a dynamic Param
unmarshal(t, bo, b, offset, fds) ==
  CASE t.k = "base" -> unmarshal_base(t.c, bo, b, offset, fds)
    [] t.k = "struct" ->
         Let(align_offset(8, b, offset), LAMBDA pad :
           IF ~pad.ok THEN UErr(pad.err)
           ELSE UAdd(pad.n, unmarshal_fields(t.sub, bo, b, offset + pad.n, fds, 0, <<>>)))
    [] t.k \in {"array", "dict"} ->
         Let(align_offset(4, b, offset), LAMBDA pad :
           IF ~pad.ok THEN UErr(pad.err)
           ELSE Let(parse_u32(From(b, offset + pad.n), bo), LAMBDA len :
             IF ~len.ok THEN UErr(len.err)
             ELSE Let(align_offset(IF t.k = "array" THEN get_alignment(t.sub[1]) ELSE 8,
                                   b, offset + pad.n + 4), LAMBDA fpad :
               IF ~fpad.ok THEN UErr(fpad.err)
               ELSE Let(offset + pad.n + 4 + fpad.n, LAMBDA start :
                 IF Len(b) - start < len.n THEN UErr("NotEnoughBytes")
                 ELSE UAdd(pad.n + 4 + fpad.n,
                           IF t.k = "array"
                           THEN unmarshal_elems(t.sub[1], bo, SubSeq(b, 1, start + len.n), start,
                                                fds, 0, len.n, <<>>)
                           ELSE unmarshal_entries(t, bo, SubSeq(b, 1, start + len.n), start,
                                                  fds, 0, len.n, <<>>))))))
    [] t.k = "variant" ->
         IF offset > Len(b) THEN UErr("NotEnoughBytes")
         ELSE Let(unmarshal_signature(From(b, offset)), LAMBDA s :
           IF ~s.ok THEN UErr(s.err)
           ELSE Let(parse_description(s.str), LAMBDA ts :
             IF ~ts.ok \/ Len(ts.ts) # 1 THEN UErr("WrongSignature")
             ELSE Let(unmarshal(ts.ts[1], bo, b, offset + s.n, fds), LAMBDA r :
               IF r.ok THEN UOk(s.n + r.n, Variant(ts.ts[1], r.val)) ELSE r)))

\* T::has_sig: a base type looks at the first character, a struct type
\* compares the whole token
has_sig(t, s) == IF t.k = "base" THEN s # <<>> /\ s[1] = t.c ELSE s = to_str(t)

\* ------------------------------------------------------------ message body
\* A body is [buf, raw_fds, sig, byteorder].  A push returns [ok, body, added]:
\* Ok(()) or Err(..), the body as the call left it, and the parameters whose
\* push completed and was not undone (kept for the round-trip properties).
Body(b, f, s, bo) == [buf |-> b, raw_fds |-> f, sig |-> s, byteorder |-> bo]
PushRes(ok, body, added) == [ok |-> ok, body |-> body, added |-> added]

\* MarshalledMessageBody::with_byteorder (new() is the native byte order)
with_byteorder(bo) == Body(<<>>, <<>>, <<>>, bo)

\* MarshalledMessageBody::reset
reset(body) == [body EXCEPT !.sig = <<>>, !.buf = <<>>]

create_ctx(body) == Ctx(body.buf, body.raw_fds, body.byteorder)

\* the result of a push whose marshal left ctx: the signature s is appended
\* and p counted as pushed only after an Ok
pushed_or_err(body, ctx, s, p) ==
  IF ctx.ok
  THEN PushRes(TRUE, Body(ctx.buf, ctx.fds, body.sig \o s, body.byteorder), <<p>>)
  ELSE PushRes(FALSE, Body(ctx.buf, ctx.fds, body.sig, body.byteorder), <<>>)

\* `e?; rest` on the result of a push: go on with the body of an Ok, return an Err
AndThen(r, Rest(_)) ==
  IF r.ok THEN Let(Rest(r.body), LAMBDA rest : [rest EXCEPT !.added = r.added \o @]) ELSE r

\* MarshalledMessageBody::push_old_param
push_old_param(body, p) ==
  pushed_or_err(body, marshal_param(p, create_ctx(body)), to_str(signature(p)), p)

RECURSIVE push_old_params(_, _)
\* MarshalledMessageBody::push_old_params
push_old_params(body, ps) ==
  IF ps = <<>> THEN PushRes(TRUE, body, <<>>)
  ELSE AndThen(push_old_param(body, Head(ps)), LAMBDA b : push_old_params(b, Tail(ps)))

\* a push that marshals the value and leaves the signature as it is
push_param_keeps_sig(body, p) == pushed_or_err(body, marshal(p, create_ctx(body)), <<>>, p)

\* MarshalledMessageBody::push_param
push_param(body, p) == pushed_or_err(body, marshal(p, create_ctx(body)), sig_str(p), p)

RECURSIVE push_calls(_, _)
\* the closure of push_param2..5: `msg.push_param(p1)?; ...; msg.push_param(pN)`
push_calls(body, ps) ==
  IF ps = <<>> THEN PushRes(TRUE, body, <<>>)
  ELSE AndThen(push_param(body, Head(ps)), LAMBDA b : push_calls(b, Tail(ps)))

\* SignatureBuffer::truncate: refuses a length that splits a type descriptor
sig_truncate(s, n) ==
  IF n = 0 \/ (n <= Len(s) /\ validate_signature(SubSeq(s, 1, n)))
  THEN [ok |-> TRUE, sig |-> SubSeq(s, 1, n)]
  ELSE [ok |-> FALSE, sig |-> s]

\* a rollback that restores sig and buf but forgets raw_fds
roll_back_keeps_fds(body, r) ==
  Let(sig_truncate(r.body.sig, Len(body.sig)), LAMBDA t :
    PushRes(FALSE,
            Body(SubSeq(r.body.buf, 1, Len(body.buf)), r.body.raw_fds, t.sig, body.byteorder),
            <<>>))

\* the Err arm of push_mult_helper: truncate sig (`?`), buf and raw_fds
roll_back(body, r) ==
  Let(sig_truncate(r.body.sig, Len(body.sig)), LAMBDA t :
    IF ~t.ok THEN PushRes(FALSE, r.body, r.added)
    ELSE PushRes(FALSE,
                 Body(SubSeq(r.body.buf, 1, Len(body.buf)),
                      SubSeq(r.body.raw_fds, 1, Len(body.raw_fds)), t.sig, body.byteorder),
                 <<>>))

\* MarshalledMessageBody::push_mult_helper
push_mult_helper(body, ps) ==
  Let(push_calls(body, ps), LAMBDA r : IF r.ok THEN r ELSE roll_back(body, r))

push_param2(body, p1, p2) == push_mult_helper(body, <<p1, p2>>)
push_param3(body, p1, p2, p3) == push_mult_helper(body, <<p1, p2, p3>>)
push_param4(body, p1, p2, p3, p4) == push_mult_helper(body, <<p1, p2, p3, p4>>)
push_param5(body, p1, p2, p3, p4, p5) == push_mult_helper(body, <<p1, p2, p3, p4, p5>>)

RECURSIVE push_params(_, _)
\* MarshalledMessageBody::push_params
push_params(body, ps) ==
  IF ps = <<>> THEN PushRes(TRUE, body, <<>>)
  ELSE AndThen(push_param(body, Head(ps)), LAMBDA b : push_params(b, Tail(ps)))

\* a push that writes p's own signature to sig and the variant to buf
push_variant_own_sig(body, p) ==
  Let(marshal_as_variant(p, create_ctx(body)), LAMBDA ctx :
    PushRes(ctx.ok, Body(ctx.buf, ctx.fds, body.sig \o sig_str(p), body.byteorder),
            IF ctx.ok THEN <<Variant(signature(p), p)>> ELSE <<>>))

\* MarshalledMessageBody::push_variant: "v" goes to sig before the marshal
push_variant(body, p) ==
  Let(marshal_as_variant(p, create_ctx(body)), LAMBDA ctx :
    PushRes(ctx.ok, Body(ctx.buf, ctx.fds, body.sig \o <<"v">>, body.byteorder),
            IF ctx.ok THEN <<Variant(signature(p), p)>> ELSE <<>>))

\* ------------------------------------------------------------------ parser
\* A parser is [buf_idx, sig_idx] over a body it borrows.  A read returns
\* [ok, err, buf_idx, sig_idx, n, val]: the result, the cursor as the call
\* left it, the bytes the unmarshal reported and the value.
GetRes(ok, err, bi, si, n, val) ==
  [ok |-> ok, err |-> err, buf_idx |-> bi, sig_idx |-> si, n |-> n, val |-> val]

\* MessageBodyParser::get_next_sig
get_next_sig(ps, body) == get_next_sig_at(body.sig, ps.sig_idx)

\* MessageBodyParser::sigs_left
sigs_left(ps, body) == sigs_left_at(body.sig, ps.sig_idx)

\* a cursor that steps over one signature character instead of one token
advance_one_char(ps, token, r) ==
  IF r.ok
  THEN GetRes(TRUE, "", ps.buf_idx + r.n, ps.sig_idx + 1, r.n, <<r.val>>)
  ELSE GetRes(FALSE, r.err, ps.buf_idx, ps.sig_idx, 0, <<>>)

\* a cursor that steps over the token and stays where it is in the buffer
advance_sig_only(ps, token, r) ==
  IF r.ok
  THEN GetRes(TRUE, "", ps.buf_idx, ps.sig_idx + Len(token), r.n, <<r.val>>)
  ELSE GetRes(FALSE, r.err, ps.buf_idx, ps.sig_idx, 0, <<>>)

\* the Ok and Err arms after the unmarshal in get and get_param
advance(ps, token, r) ==
  IF r.ok
  THEN GetRes(TRUE, "", ps.buf_idx + r.n, ps.sig_idx + Len(token), r.n, <<r.val>>)
  ELSE GetRes(FALSE, r.err, ps.buf_idx, ps.sig_idx, 0, <<>>)

\* MessageBodyParser::get::<T>
get(ps, body, t) ==
  Let(get_next_sig(ps, body), LAMBDA expected_sig :
    IF expected_sig = <<>> THEN GetRes(FALSE, "EndOfMessage", ps.buf_idx, ps.sig_idx, 0, <<>>)
    ELSE IF ~has_sig(t, expected_sig)
         THEN GetRes(FALSE, "WrongSignature", ps.buf_idx, ps.sig_idx, 0, <<>>)
    ELSE advance(ps, expected_sig,
                 unmarshal(t, body.byteorder, body.buf, ps.buf_idx, body.raw_fds)))

\* `e?; rest` on the result of a read: go on from the cursor of an Ok adding
\* up what was read, return an Err with the cursor where it stopped
GetThen(r, Rest(_)) ==
  IF r.ok
  THEN Let(Rest([buf_idx |-> r.buf_idx, sig_idx |-> r.sig_idx]), LAMBDA rest :
         IF rest.ok
         THEN [rest EXCEPT !.n = r.n + @, !.val = r.val \o @]
         ELSE rest)
  ELSE r

RECURSIVE get_calls(_, _, _)
\* the closure of get2..5: `parser.get()?; ...; parser.get()?`
get_calls(ps, body, ts) ==
  IF ts = <<>> THEN GetRes(TRUE, "", ps.buf_idx, ps.sig_idx, 0, <<>>)
  ELSE GetThen(get(ps, body, Head(ts)), LAMBDA p : get_calls(p, body, Tail(ts)))

\* a restore that puts back sig_idx and forgets buf_idx
restore_sig_idx_only(ps, r) == GetRes(FALSE, r.err, r.buf_idx, ps.sig_idx, 0, <<>>)

\* the Err arm of get_mult_helper: both indices go back to the snapshot
restore(ps, r) == GetRes(FALSE, r.err, ps.buf_idx, ps.sig_idx, 0, <<>>)

\* a helper that starts reading without counting the parameters left
get_mult_helper_uncounted(ps, body, count, ts) ==
  Let(get_calls(ps, body, ts), LAMBDA r : IF r.ok THEN r ELSE restore(ps, r))

\* MessageBodyParser::get_mult_helper
get_mult_helper(ps, body, count, ts) ==
  IF count > sigs_left(ps, body)
  THEN GetRes(FALSE, "EndOfMessage", ps.buf_idx, ps.sig_idx, 0, <<>>)
  ELSE Let(get_calls(ps, body, ts), LAMBDA r : IF r.ok THEN r ELSE restore(ps, r))

get2(ps, body, t1, t2) == get_mult_helper(ps, body, 2, <<t1, t2>>)
get3(ps, body, t1, t2, t3) == get_mult_helper(ps, body, 3, <<t1, t2, t3>>)
get4(ps, body, t1, t2, t3, t4) == get_mult_helper(ps, body, 4, <<t1, t2, t3, t4>>)
get5(ps, body, t1, t2, t3, t4, t5) == get_mult_helper(ps, body, 5, <<t1, t2, t3, t4, t5>>)

\* MessageBodyParser::get_param
get_param(ps, body) ==
  Let(get_next_sig(ps, body), LAMBDA sig_str1 :
    IF sig_str1 = <<>> THEN GetRes(FALSE, "EndOfMessage", ps.buf_idx, ps.sig_idx, 0, <<>>)
    ELSE advance(ps, sig_str1,
                 unmarshal(parse_description(sig_str1).ts[1], body.byteorder, body.buf,
                           ps.buf_idx, body.raw_fds)))

\* ---------------------------------------------------------------- envelope
\* Option<T>: None is <<>>, Some(x) is <<x>>
None == <<>>
Some(x) == <<x>>

RECURSIVE BitAnd(_, _)
\* x & y on unsigned integers
BitAnd(x, y) ==
  IF x = 0 \/ y = 0 THEN 0
  ELSE (x % 2) * (y % 2) + 2 * BitAnd(x \div 2, y \div 2)

\* x | y on unsigned integers
BitOr(x, y) == x + y - BitAnd(x, y)

HeaderFlags == {"NoReplyExpected", "NoAutoStart", "AllowInteractiveAuthorization"}

\* HeaderFlags::into_raw
into_raw(f) ==
  CASE f = "NoReplyExpected" -> 1
    [] f = "NoAutoStart" -> 2
    [] f = "AllowInteractiveAuthorization" -> 4

\* HeaderFlags::is_set: `flags & self.into_raw() == 1`, & binding tighter
\* than ==
is_set(f, fl) == BitAnd(fl, into_raw(f)) = 1

\* HeaderFlags::set
set(f, fl) == BitOr(fl, into_raw(f))

\* HeaderFlags::unset
unset(f, fl) == BitAnd(fl, 255 - into_raw(f))

\* HeaderFlags::toggle
toggle(f, fl) == IF is_set(f, fl) THEN unset(f, fl) ELSE set(f, fl)

\* DynamicHeader::default
DefaultHeader ==
  [interface |-> None, member |-> None, object |-> None, destination |-> None,
   serial |-> None, sender |-> None, signature |-> None, error_name |-> None,
   response_serial |-> None, num_fds |-> None]

\* a MarshalledMessage
Message(t, fl, dh, body) == [typ |-> t, flags |-> fl, dynheader |-> dh, body |-> body]

\* MarshalledMessage::with_byteorder (new() is the native byte order)
message_with_byteorder(bo) == Message("Invalid", 0, DefaultHeader, with_byteorder(bo))

\* a call that sets the member and leaves the type as it was
call_keeps_typ(msg, member) == [msg EXCEPT !.dynheader.member = Some(member)]

\* MessageBuilder::call
call(msg, member) ==
  [msg EXCEPT !.typ = "Call", !.dynheader.member = Some(member)]

\* MessageBuilder::signal
signal(msg, interface, member, object) ==
  [msg EXCEPT !.typ = "Signal", !.dynheader.member = Some(member),
              !.dynheader.interface = Some(interface), !.dynheader.object = Some(object)]

\* CallBuilder::on
on(msg, object_path) == [msg EXCEPT !.dynheader.object = Some(object_path)]

\* CallBuilder::with_interface
with_interface(msg, interface) == [msg EXCEPT !.dynheader.interface = Some(interface)]

\* CallBuilder::at
at(msg, destination) == [msg EXCEPT !.dynheader.destination = Some(destination)]

\* SignalBuilder::to
to(msg, destination) == [msg EXCEPT !.dynheader.destination = Some(destination)]

\* a reply addressed to the destination of h instead of its sender
ReplyHeaderToDestination(h, error_name) ==
  [DefaultHeader EXCEPT !.destination = h.destination, !.response_serial = h.serial,
                        !.error_name = error_name]

\* the header of a reply to the header h
ReplyHeader(h, error_name) ==
  [DefaultHeader EXCEPT !.destination = h.sender, !.response_serial = h.serial,
                        !.error_name = error_name]

\* DynamicHeader::make_response
make_response(h, bo) == Message("Reply", 0, ReplyHeader(h, None), with_byteorder(bo))

\* DynamicHeader::make_error_response: [panicked, msg], the unwrap of the
\* push panics on an Err
make_error_response(h, error_name, error_msg, bo) ==
  IF error_msg = None
  THEN [panicked |-> FALSE,
        msg |-> Message("Reply", 0, ReplyHeader(h, Some(error_name)), with_byteorder(bo))]
  ELSE Let(push_param(with_byteorder(bo), Str(error_msg[1])), LAMBDA r :
         [panicked |-> ~r.ok,
          msg |-> Message("Reply", 0, ReplyHeader(h, Some(error_name)), r.body)])

\* ------------------------------------------------------------------ inputs
BadStruct == Struct(<<Fd(4), Failing("u")>>)

\* values handed to push_param: base values, a struct, an fd, and two values
\* whose marshal fails (one after writing padding, bytes and an fd)
TypedVals ==
  {U8(7), U32(5), Str(<<97>>), Fd(3), Struct(<<U8(1), Bool(1)>>), BadStruct, Failing("u")}

\* values handed to push_param2: two that marshal, so that their order shows,
\* and one that fails after writing
PairVals == {U8(7), Fd(3), BadStruct}

\* values handed to push_param3..5
MultVals == {Fd(3), BadStruct}

\* slices handed to push_params (all elements of one type)
Slices ==
  {<<>>, <<U8(7), U8(8)>>,
   <<Struct(<<Fd(3), U8(1)>>), Struct(<<Fd(4), Failing("y")>>)>>}

\* values handed to push_variant
VariantVals == {U32(5), BadStruct, Failing("u")}

BadArray == Array(ArrayT(BaseT("u")), <<Array(BaseT("u"), <<Str(<<97>>)>>)>>)

\* Params handed to push_old_param: the nested array and the struct fail
\* validation after the outer container has written bytes
Params ==
  {U32(5),
   Array(BaseT("u"), <<U32(1)>>),
   BadArray,
   Dict(BaseT("s"), BaseT("u"), <<Str(<<97>>), U32(4)>>),
   Struct(<<U32(6), BadArray>>),
   Variant(BaseT("u"), U32(5))}

\* slices handed to push_old_params
ParamSlices == {<<U32(5), U8(7)>>, <<U32(5), BadArray>>}

\* the types T a caller asks get::<T>() for
GetTypes ==
  {BaseT("y"), BaseT("u"), BaseT("s"), BaseT("h"), StructT(<<BaseT("y"), BaseT("b")>>)}

\* the types a caller asks get2 for
MultTypes == {BaseT("y"), BaseT("h")}

\* type lists a caller asks get3..5 for: all fds, the last a byte, the first
\* a byte
MultTypeArgs(n) ==
  {[i \in 1..n |-> BaseT("h")],
   [i \in 1..n |-> IF i = n THEN BaseT("y") ELSE BaseT("h")],
   [i \in 1..n |-> IF i = 1 THEN BaseT("y") ELSE BaseT("h")]}

\* ------------------------------------------------------------------- state
envelope == <<typ, flags, dynheader, stage>>

CurBody == Body(buf, raw_fds, sig, byteorder)
CurMessage == Message(typ, flags, dynheader, CurBody)
CurParser == [buf_idx |-> buf_idx, sig_idx |-> sig_idx]

\* what the last call was, how it ended, the state it started from and, for
\* a get, whether the call before it ended in WrongSignature
Obs(op, args, ok, err, n, val) ==
  [op |-> op, args |-> args, ok |-> ok, err |-> err, n |-> n, val |-> val,
   pre_buf |-> buf, pre_fds |-> raw_fds, pre_sig |-> sig,
   pre_buf_idx |-> buf_idx, pre_sig_idx |-> sig_idx,
   prev_err |-> IF op = "get" /\ last.err = "WrongSignature" THEN last.err ELSE ""]

Init ==
  /\ byteorder \in ByteOrders
  /\ buf = <<>> /\ raw_fds = <<>> /\ sig = <<>>
  /\ parsing = FALSE /\ buf_idx = 0 /\ sig_idx = 0
  /\ calls = 0 /\ bytes_used_counter = 0
  /\ pushed = <<>>
  /\ last = [op |-> "new", args |-> <<>>, ok |-> TRUE, err |-> "", n |-> 0, val |-> <<>>,
             pre_buf |-> <<>>, pre_fds |-> <<>>, pre_sig |-> <<>>,
             pre_buf_idx |-> 0, pre_sig_idx |-> 0, prev_err |-> ""]
  /\ typ = "Invalid" /\ flags = 0 /\ dynheader = DefaultHeader
  /\ stage = "MarshalledMessageBody"

\* a call on the body that returned r
Mutate(op, args, r) ==
  /\ ~parsing
  /\ calls < MaxCalls
  /\ buf' = r.body.buf
  /\ raw_fds' = r.body.raw_fds
  /\ sig' = r.body.sig
  /\ calls' = calls + 1
  /\ pushed' = pushed \o r.added
  /\ last' = Obs(op, args, r.ok, IF r.ok THEN "" ELSE "MarshalError", 0, <<>>)
  /\ UNCHANGED <<byteorder, parsing, buf_idx, sig_idx>>
  /\ UNCHANGED <<envelope, bytes_used_counter>>

PushParam == \E p \in TypedVals : Mutate("push_param", <<p>>, push_param(CurBody, p))

PushParam2 ==
  \E p1, p2 \in PairVals : Mutate("push_param2", <<p1, p2>>, push_param2(CurBody, p1, p2))

PushParam3 ==
  \E p1, p2, p3 \in MultVals : Mutate("push_param3", <<p1, p2, p3>>, push_param3(CurBody, p1, p2, p3))

PushParam4 ==
  \E p1, p2, p3, p4 \in MultVals :
    Mutate("push_param4", <<p1, p2, p3, p4>>, push_param4(CurBody, p1, p2, p3, p4))

PushParam5 ==
  \E p1, p2, p3, p4, p5 \in MultVals :
    Mutate("push_param5", <<p1, p2, p3, p4, p5>>, push_param5(CurBody, p1, p2, p3, p4, p5))

PushParams == \E ps \in Slices : Mutate("push_params", ps, push_params(CurBody, ps))

PushVariant == \E p \in VariantVals : Mutate("push_variant", <<p>>, push_variant(CurBody, p))

PushOldParam == \E p \in Params : Mutate("push_old_param", <<p>>, push_old_param(CurBody, p))

PushOldParams == \E ps \in ParamSlices : Mutate("push_old_params", ps, push_old_params(CurBody, ps))

Reset ==
  /\ ~parsing
  /\ calls < MaxCalls
  /\ LetStep(reset(CurBody), LAMBDA b : buf' = b.buf /\ raw_fds' = b.raw_fds /\ sig' = b.sig)
  /\ calls' = calls + 1
  /\ pushed' = <<>>
  /\ last' = Obs("reset", <<>>, TRUE, "", 0, <<>>)
  /\ UNCHANGED <<byteorder, parsing, buf_idx, sig_idx>>
  /\ UNCHANGED <<envelope, bytes_used_counter>>

\* MarshalledMessageBody::parser / MessageBodyParser::new
Parser ==
  /\ ~parsing
  /\ parsing' = TRUE
  /\ buf_idx' = 0
  /\ sig_idx' = 0
  /\ last' = [Obs("parser", <<>>, TRUE, "", 0, <<>>) EXCEPT !.prev_err = ""]
  /\ UNCHANGED <<byteorder, buf, raw_fds, sig, calls, pushed>>
  /\ UNCHANGED <<envelope, bytes_used_counter>>

\* a call on the parser that returned r
Read(op, r) ==
  /\ parsing
  /\ buf_idx' = r.buf_idx
  /\ sig_idx' = r.sig_idx
  /\ last' = Obs(op, <<>>, r.ok, r.err, r.n, r.val)
  /\ UNCHANGED <<byteorder, buf, raw_fds, sig, parsing, calls, pushed>>
  /\ UNCHANGED <<envelope, bytes_used_counter>>

Get == \E t \in GetTypes : Read("get", get(CurParser, CurBody, t))

GetParam == Read("get_param", get_param(CurParser, CurBody))

\* a call on the parser that asked for the types ts and returned r
ReadN(op, ts, r) ==
  /\ parsing
  /\ buf_idx' = r.buf_idx
  /\ sig_idx' = r.sig_idx
  /\ last' = Obs(op, ts, r.ok, r.err, r.n, r.val)
  /\ UNCHANGED <<byteorder, buf, raw_fds, sig, parsing, calls, pushed>>
  /\ UNCHANGED <<envelope, bytes_used_counter>>

Get2 == \E t1, t2 \in MultTypes : ReadN("get2", <<t1, t2>>, get2(CurParser, CurBody, t1, t2))

Get3 == \E t \in MultTypeArgs(3) : ReadN("get3", t, get3(CurParser, CurBody, t[1], t[2], t[3]))

Get4 ==
  \E t \in MultTypeArgs(4) : ReadN("get4", t, get4(CurParser, CurBody, t[1], t[2], t[3], t[4]))

Get5 ==
  \E t \in MultTypeArgs(5) :
    ReadN("get5", t, get5(CurParser, CurBody, t[1], t[2], t[3], t[4], t[5]))

\* the parser is dropped and the body can be changed again
DropParser ==
  /\ parsing
  /\ parsing' = FALSE
  /\ buf_idx' = 0
  /\ sig_idx' = 0
  /\ last' = [Obs("drop", <<>>, TRUE, "", 0, <<>>) EXCEPT !.prev_err = "", !.pre_buf_idx = 0, !.pre_sig_idx = 0]
  /\ UNCHANGED <<byteorder, buf, raw_fds, sig, calls, pushed>>
  /\ UNCHANGED <<envelope, bytes_used_counter>>

Next ==
  \/ PushParam
  \/ PushParam2
  \/ PushParam3
  \/ PushParam4
  \/ PushParam5
  \/ PushParams
  \/ PushVariant
  \/ PushOldParam
  \/ PushOldParams
  \/ Reset
  \/ Parser
  \/ Get
  \/ GetParam
  \/ DropParser

Spec == Init /\ [][Next]_vars

\* the typed pushes and the typed reads, one and several parameters a call
MultiNext ==
  \/ PushParam
  \/ PushParam2
  \/ PushParam3
  \/ PushParam4
  \/ PushParam5
  \/ Parser
  \/ Get
  \/ Get2
  \/ Get3
  \/ Get4
  \/ Get5
  \/ DropParser

MultiSpec == Init /\ [][MultiNext]_vars

\* ----------------------------------------------------------- message specs
\* names and texts: strings of bytes
Names == {<<97>>, <<98>>}
Texts == {<<>>, <<97>>}

\* the headers of received messages that are answered
Headers ==
  {[DefaultHeader EXCEPT !.sender = snd, !.serial = ser, !.interface = Some(<<97>>),
                         !.member = Some(<<98>>), !.object = Some(<<97>>),
                         !.destination = Some(<<98>>), !.signature = Some(<<97>>),
                         !.error_name = en, !.response_serial = Some(2), !.num_fds = Some(1)] :
     snd \in {None, Some(<<97>>)}, ser \in {None, Some(1), Some(2)}, en \in {None, Some(<<98>>)}}

\* MessageBuilder::new / with_byteorder, MarshalledMessage::new / with_byteorder
MsgInit ==
  /\ byteorder \in ByteOrders
  /\ stage \in {"MessageBuilder", "MarshalledMessage"}
  /\ LetStep(message_with_byteorder(byteorder), LAMBDA m :
       /\ typ = m.typ /\ flags = m.flags /\ dynheader = m.dynheader
       /\ buf = m.body.buf /\ raw_fds = m.body.raw_fds /\ sig = m.body.sig)
  /\ parsing = FALSE /\ buf_idx = 0 /\ sig_idx = 0
  /\ calls = 0 /\ bytes_used_counter = 0
  /\ pushed = <<>>
  /\ last = [op |-> "new", args |-> <<>>, ok |-> TRUE, err |-> "", n |-> 0, val |-> <<>>,
             pre_buf |-> <<>>, pre_fds |-> <<>>, pre_sig |-> <<>>,
             pre_buf_idx |-> 0, pre_sig_idx |-> 0, prev_err |-> ""]

\* a builder call op(args) that leaves the message m in a builder or message st
Envelope(op, args, m, st) ==
  /\ typ' = m.typ /\ flags' = m.flags /\ dynheader' = m.dynheader
  /\ buf' = m.body.buf /\ raw_fds' = m.body.raw_fds /\ sig' = m.body.sig
  /\ stage' = st
  /\ last' = Obs(op, args, TRUE, "", 0, <<>>)
  /\ UNCHANGED <<byteorder, parsing, buf_idx, sig_idx, calls, pushed, bytes_used_counter>>

Call ==
  /\ stage = "MessageBuilder"
  /\ \E member \in Names : Envelope("call", <<member>>, call(CurMessage, member), "CallBuilder")

Signal ==
  /\ stage = "MessageBuilder"
  /\ \E interface, member, object \in Names :
       Envelope("signal", <<interface, member, object>>,
                signal(CurMessage, interface, member, object), "SignalBuilder")

On ==
  /\ stage = "CallBuilder"
  /\ \E object_path \in Names :
       Envelope("on", <<object_path>>, on(CurMessage, object_path), "CallBuilder")

WithInterface ==
  /\ stage = "CallBuilder"
  /\ \E interface \in Names :
       Envelope("with_interface", <<interface>>, with_interface(CurMessage, interface),
                "CallBuilder")

At ==
  /\ stage = "CallBuilder"
  /\ \E destination \in Names :
       Envelope("at", <<destination>>, at(CurMessage, destination), "CallBuilder")

To ==
  /\ stage = "SignalBuilder"
  /\ \E destination \in Names :
       Envelope("to", <<destination>>, to(CurMessage, destination), "SignalBuilder")

\* CallBuilder::build / SignalBuilder::build
Build ==
  /\ stage \in {"CallBuilder", "SignalBuilder"}
  /\ Envelope("build", <<>>, CurMessage, "MarshalledMessage")

\* a received header is answered: the reply is the message looked at from now
MakeResponse ==
  /\ stage = "MarshalledMessage"
  /\ \E h \in Headers : Envelope("make_response", <<h>>, make_response(h, byteorder),
                                 "MarshalledMessage")

MakeErrorResponse ==
  /\ stage = "MarshalledMessage"
  /\ \E h \in Headers, error_name \in Names, error_msg \in {None} \cup {Some(t) : t \in Texts} :
       LetStep(make_error_response(h, error_name, error_msg, byteorder), LAMBDA r :
         /\ typ' = r.msg.typ /\ flags' = r.msg.flags /\ dynheader' = r.msg.dynheader
         /\ buf' = r.msg.body.buf /\ raw_fds' = r.msg.body.raw_fds /\ sig' = r.msg.body.sig
         /\ stage' = IF r.panicked THEN "panicked" ELSE "MarshalledMessage"
         /\ last' = Obs("make_error_response", <<h, error_name, error_msg>>, ~r.panicked,
                        IF r.panicked THEN "panic" ELSE "", 0, <<>>))
  /\ UNCHANGED <<byteorder, parsing, buf_idx, sig_idx, calls, pushed, bytes_used_counter>>

MessageNext ==
  \/ Call
  \/ Signal
  \/ On
  \/ WithInterface
  \/ At
  \/ To
  \/ Build
  \/ MakeResponse
  \/ MakeErrorResponse

MessageSpec == MsgInit /\ [][MessageNext]_vars

\* a write of the public field flags, or the flags of a received message
AssignFlags ==
  /\ stage = "MarshalledMessage"
  /\ \E v \in 0..255 : Envelope("flags", <<v>>, [CurMessage EXCEPT !.flags = v], stage)

FlagSet ==
  /\ stage = "MarshalledMessage"
  /\ \E f \in HeaderFlags : Envelope("set", <<f>>, [CurMessage EXCEPT !.flags = set(f, @)], stage)

FlagUnset ==
  /\ stage = "MarshalledMessage"
  /\ \E f \in HeaderFlags :
       Envelope("unset", <<f>>, [CurMessage EXCEPT !.flags = unset(f, @)], stage)

FlagToggle ==
  /\ stage = "MarshalledMessage"
  /\ \E f \in HeaderFlags :
       Envelope("toggle", <<f>>, [CurMessage EXCEPT !.flags = toggle(f, @)], stage)

FlagsNext ==
  \/ AssignFlags
  \/ FlagSet
  \/ FlagUnset
  \/ FlagToggle

FlagsSpec == MsgInit /\ [][FlagsNext]_vars

\* ------------------------------------------------------------ dynamic spec
\* [[4u64]]: an array of arrays of u64
NestedArray == Array(ArrayT(BaseT("t")), <<Array(BaseT("t"), <<U64(4)>>)>>)

\* Params handed to push_old_param one at a time: an empty string (five
\* bytes, so that collections start at odd offsets), arrays and dicts, empty
\* and not, with padding before the first element and between elements, and
\* variants whose declared signature is, and is not, the signature of the value
DynParams ==
  {Str(<<>>),
   Array(BaseT("t"), <<U64(4)>>),
   NestedArray,
   Array(BaseT("t"), <<>>),
   Array(StructT(<<BaseT("y")>>), <<Struct(<<U8(1)>>), Struct(<<U8(2)>>)>>),
   Dict(BaseT("s"), BaseT("u"), <<Str(<<97>>), U32(4)>>),
   Dict(BaseT("y"), BaseT("y"), <<U8(1), U8(2), U8(3), U8(4)>>),
   Dict(BaseT("s"), BaseT("u"), <<>>),
   Variant(BaseT("u"), U32(5)),
   Variant(BaseT("u"), Str(<<97>>))}

PushDynParam == \E p \in DynParams : Mutate("push_old_param", <<p>>, push_old_param(CurBody, p))

\* marshal_array followed on lengths only, for arrays too long to enumerate
\* byte by byte: an array of n bytes ("y") marshalled at the end of a buffer
\* of len bytes. It returns Ok for every n; `len as u32` changes no length
\* below 2^32
marshal_array_len(len, n) ==
  Let(len + PadLen(4, len), LAMBDA len_pos :
    Let(len_pos + 4 + PadLen(1, len_pos + 4), LAMBDA content_pos :
      [ok |-> TRUE, len |-> content_pos + n, prefix |-> (content_pos + n) - content_pos]))

\* the byte counts of the arrays marshal_array_len is asked about
MaxArrayLen == 67108864
ArrayLens == {0, 1, MaxArrayLen, MaxArrayLen + 1, 2 * MaxArrayLen}

\* marshal_array called with a context of its own whose buffer is as long as
\* the body's, for an array of n bytes; the call's outcome is recorded, the
\* length written in val
MarshalArrayLen ==
  /\ ~parsing
  /\ \E n \in ArrayLens :
       LetStep(marshal_array_len(Len(buf), n), LAMBDA r :
         last' = Obs("marshal_array", <<n>>, r.ok, IF r.ok THEN "" ELSE "MarshalError", 0,
                     <<r.prefix>>))
  /\ UNCHANGED <<byteorder, buf, raw_fds, sig, parsing, buf_idx, sig_idx, calls, pushed>>
  /\ UNCHANGED <<envelope, bytes_used_counter>>

DynNext ==
  \/ PushDynParam
  \/ MarshalArrayLen

DynSpec == Init /\ [][DynNext]_vars

\* --------------------------------------------------------- validator spec
\* a buffer handed to validate_marshalled: the type t, the offset, the bytes
\* raw, and the alignment gaps of the value as <<start, length>> in the order
\* the validator meets them
Sample(t, offset, raw, gaps) == [t |-> t, offset |-> offset, raw |-> raw, gaps |-> gaps]

\* the bytes of the dynamic value p marshalled after the bytes lead
Marshalled(lead, p, bo) == marshal_param(p, Ctx(lead, <<>>, bo)).buf

\* values marshalled at offsets that leave gaps before them and inside them,
\* and two buffers that hold another fault: an array that claims 100 bytes
\* and a struct whose last field is the boolean 2
Samples(bo) ==
  {Sample(BaseT("u"), 1, Marshalled(<<9>>, U32(5), bo), <<<<1, 3>>>>),
   Sample(BaseT("s"), 1, Marshalled(<<9>>, Str(<<97>>), bo), <<<<1, 3>>>>),
   Sample(ArrayT(BaseT("t")), 5,
          Marshalled(<<9, 9, 9, 9, 9>>, Array(BaseT("t"), <<U64(4)>>), bo),
          <<<<5, 3>>, <<12, 4>>>>),
   Sample(ArrayT(StructT(<<BaseT("y")>>)), 0,
          Marshalled(<<>>, Array(StructT(<<BaseT("y")>>), <<>>), bo), <<<<4, 4>>>>),
   Sample(ArrayT(StructT(<<BaseT("y")>>)), 8,
          Marshalled(<<9, 9, 9, 9, 9, 9, 9, 9>>,
                     Array(StructT(<<BaseT("y")>>), <<Struct(<<U8(1)>>), Struct(<<U8(2)>>)>>), bo),
          <<<<12, 4>>, <<17, 7>>>>),
   Sample(DictT(BaseT("y"), BaseT("y")), 0,
          Marshalled(<<>>, Dict(BaseT("y"), BaseT("y"), <<U8(1), U8(2), U8(3), U8(4)>>), bo),
          <<<<4, 4>>, <<10, 6>>>>),
   Sample(StructT(<<BaseT("y"), BaseT("u")>>), 0,
          Marshalled(<<>>, Struct(<<U8(8), U32(14)>>), bo), <<<<1, 3>>>>),
   Sample(StructT(<<BaseT("y"), BaseT("u")>>), 1,
          Marshalled(<<9>>, Struct(<<U8(8), U32(14)>>), bo), <<<<1, 7>>, <<9, 3>>>>),
   Sample(VariantT, 0, Marshalled(<<>>, Variant(BaseT("u"), U32(5)), bo), <<<<3, 1>>>>),
   Sample(ArrayT(BaseT("t")), 0, U32Bytes(bo, 100) \o Zeros(4), <<<<4, 4>>>>),
   Sample(StructT(<<BaseT("y"), BaseT("u"), BaseT("b")>>), 0,
          <<8, 0, 0, 0>> \o U32Bytes(bo, 14) \o U32Bytes(bo, 2), <<<<1, 3>>>>)}

\* the positions (from 1) of the bytes of the gaps of a sample
GapBytes(s) ==
  UNION {(s.gaps[g][1] + 1)..(s.gaps[g][1] + s.gaps[g][2]) : g \in DOMAIN s.gaps}

\* how many bytes of the gaps are overwritten at most, and with what
MaxPokes == 2
PokeVals == {1, 100}

\* the buffer b with the bytes at the positions ps set to v
Poked(b, ps, v) == [i \in DOMAIN b |-> IF i \in ps THEN v ELSE b[i]]

\* the arguments of a call of validate_marshalled: buf the bytes, sig the
\* signature of the one type, buf_idx the offset
ValidateInit ==
  /\ byteorder \in ByteOrders
  /\ \E s \in Samples(byteorder), v \in PokeVals :
       \E ps \in {q \in SUBSET GapBytes(s) : Cardinality(q) <= MaxPokes} :
         /\ buf = Poked(s.raw, ps, v)
         /\ sig = to_str(s.t)
         /\ buf_idx = s.offset
  /\ raw_fds = <<>>
  /\ parsing = FALSE /\ sig_idx = 0
  /\ calls = 0 /\ bytes_used_counter = 0
  /\ pushed = <<>>
  /\ last = [op |-> "new", args |-> <<>>, ok |-> TRUE, err |-> "", n |-> 0, val |-> <<>>,
             pre_buf |-> <<>>, pre_fds |-> <<>>, pre_sig |-> <<>>,
             pre_buf_idx |-> 0, pre_sig_idx |-> 0, prev_err |-> ""]
  /\ typ = "Invalid" /\ flags = 0 /\ dynheader = DefaultHeader
  /\ stage = "validate_marshalled"

\* validate_marshalled(byteorder, offset, &buf, &sig): n is the bytes used of
\* an Ok and the position of an Err
ValidateMarshalled ==
  /\ stage = "validate_marshalled"
  /\ LetStep(validate_marshalled(byteorder, buf_idx, buf, parse_description(sig).ts[1]), LAMBDA r :
       last' = Obs("validate_marshalled", <<>>, r.ok, r.err, r.n, <<>>))
  /\ UNCHANGED <<byteorder, buf, raw_fds, sig, parsing, buf_idx, sig_idx, calls, pushed>>
  /\ UNCHANGED <<envelope, bytes_used_counter>>

ValidateNext == ValidateMarshalled

ValidateSpec == ValidateInit /\ [][ValidateNext]_vars

\* ------------------------------------------------------- collection spec
\* the contents of collections, each marshalled from a position aligned to
\* its elements: a u64, three bytes, two u32, the booleans 1 and 2, the strings "a"
\* and "", one string of ten characters, an array of three bytes, two
\* structs of a byte, two dict entries
RawContents(bo) ==
  {<<ArrayT(BaseT("t")), U64Bytes(bo, <<4, 0>>)>>,
   <<ArrayT(BaseT("y")), <<1, 2, 3>>>>,
   <<ArrayT(BaseT("u")), U32Bytes(bo, 5) \o U32Bytes(bo, 6)>>,
   <<ArrayT(BaseT("b")), U32Bytes(bo, 1) \o U32Bytes(bo, 2)>>,
   <<ArrayT(BaseT("s")), U32Bytes(bo, 1) \o <<97, 0, 0, 0>> \o U32Bytes(bo, 0) \o <<0>>>>,
   <<ArrayT(BaseT("s")), U32Bytes(bo, 10) \o [i \in 1..10 |-> 97] \o <<0>>>>,
   <<ArrayT(ArrayT(BaseT("y"))), U32Bytes(bo, 3) \o <<1, 2, 3>>>>,
   <<ArrayT(StructT(<<BaseT("y")>>)), <<1, 0, 0, 0, 0, 0, 0, 0, 2>>>>,
   <<DictT(BaseT("y"), BaseT("y")), <<1, 2, 0, 0, 0, 0, 0, 0, 3, 4>>>>}

\* the largest content length a length field claims, besides 100
MaxClaim == 16

\* the bytes of a collection at the start of its buffer (offset 0) or behind
\* one byte and its padding (offset 1): the length field claiming `declared`
\* bytes, the padding to the elements (its first byte 1 when dirty), the
\* content, and of what follows the length field only the first cut bytes
RawBuffer(bo, t, content, offset, declared, dirty, cut) ==
  Let(IF offset = 0 THEN <<>> ELSE <<9, 0, 0, 0>>, LAMBDA lead :
    Let(Zeros(PadLen(IF t.k = "dict" THEN 8 ELSE get_alignment(t.sub[1]), Len(lead) + 4)),
        LAMBDA pad :
      Let([i \in DOMAIN pad |-> IF dirty /\ i = 1 THEN 1 ELSE 0] \o content, LAMBDA tail :
        lead \o U32Bytes(bo, declared)
             \o SubSeq(tail, 1, IF cut < Len(tail) THEN cut ELSE Len(tail)))))

\* the arguments of a call of validate_marshalled on a collection
RawInit ==
  /\ byteorder \in ByteOrders
  /\ \E c \in RawContents(byteorder), offset \in {0, 1}, declared \in 0..MaxClaim \cup {100},
        dirty \in BOOLEAN :
       \E cut \in 0..(Len(c[2]) + 4) :
       /\ buf = RawBuffer(byteorder, c[1], c[2], offset, declared, dirty, cut)
       /\ sig = to_str(c[1])
       /\ buf_idx = offset
  /\ raw_fds = <<>>
  /\ parsing = FALSE /\ sig_idx = 0
  /\ calls = 0 /\ bytes_used_counter = 0
  /\ pushed = <<>>
  /\ last = [op |-> "new", args |-> <<>>, ok |-> TRUE, err |-> "", n |-> 0, val |-> <<>>,
             pre_buf |-> <<>>, pre_fds |-> <<>>, pre_sig |-> <<>>,
             pre_buf_idx |-> 0, pre_sig_idx |-> 0, prev_err |-> ""]
  /\ typ = "Invalid" /\ flags = 0 /\ dynheader = DefaultHeader
  /\ stage = "validate_marshalled"

RawSpec == RawInit /\ [][ValidateNext]_vars

\* ----------------------------------------------------------- signature spec
\* the maps of test_marshal_trait: {"a": {"a": 4}} and an empty map
NestedMap ==
  Dict(BaseT("s"), DictT(BaseT("s"), BaseT("u")),
       <<Str(<<97>>), Dict(BaseT("s"), BaseT("u"), <<Str(<<97>>), U32(4)>>)>>)

EmptyMap == Dict(BaseT("s"), BaseT("u"), <<>>)

\* values handed to push_param and push_param2
SigVals == {NestedMap, EmptyMap, U8(7), Struct(<<U64(100), Str(<<65>>)>>), Failing("u")}

\* Params handed to push_old_param
SigParams == {EmptyMap, Array(BaseT("u"), <<U32(1)>>), BadArray}

SigPushParam == \E p \in SigVals : Mutate("push_param", <<p>>, push_param(CurBody, p))

SigPushParam2 ==
  \E p1, p2 \in SigVals \ {NestedMap} :
    Mutate("push_param2", <<p1, p2>>, push_param2(CurBody, p1, p2))

SigPushOldParam ==
  \E p \in SigParams : Mutate("push_old_param", <<p>>, push_old_param(CurBody, p))

SigPushVariant == \E p \in SigVals : Mutate("push_variant", <<p>>, push_variant(CurBody, p))

SigNext ==
  \/ SigPushParam
  \/ SigPushParam2
  \/ SigPushOldParam
  \/ SigPushVariant

SigSpec == Init /\ [][SigNext]_vars

\* ------------------------------------------------------------- variant spec
\* the signatures embedded in the variants handed to the validator
EmbeddedSigs ==
  {<<>>, <<"u">>, <<"y">>, <<"v">>, <<"a", "y">>, <<"u", "u">>, <<"y", "u">>,
   <<"a">>, <<"(">>, <<"(", ")">>, <<"a", "{", "y", "}">>}

\* the bytes that follow the signature field
VariantPayloads(bo) ==
  {<<>>, <<7>>,
   U32Bytes(bo, 5), <<0>> \o U32Bytes(bo, 5), <<1>> \o U32Bytes(bo, 5),
   U32Bytes(bo, 5) \o U32Bytes(bo, 6),
   U32Bytes(bo, 1) \o <<7>>,
   <<1, CharByte("y"), 0, 7>>}

\* util::write_signature: length byte, the characters, NUL
SignatureField(s) == <<Len(s)>> \o [i \in 1..Len(s) |-> CharByte(s[i])] \o <<0>>

\* a variant at offset 0 or 1 of the buffer: the field with the embedded
\* signature, then the payload without its last `cut` bytes
VariantInit ==
  /\ byteorder \in ByteOrders
  /\ \E e \in EmbeddedSigs, p \in VariantPayloads(byteorder), offset \in {0, 1}, cut \in {0, 1} :
       /\ buf = [i \in 1..offset |-> 9] \o SignatureField(e)
                  \o SubSeq(p, 1, IF Len(p) > cut THEN Len(p) - cut ELSE 0)
       /\ sig = <<"v">>
       /\ buf_idx = offset
  /\ raw_fds = <<>>
  /\ parsing = FALSE /\ sig_idx = 0
  /\ calls = 0 /\ bytes_used_counter = 0
  /\ pushed = <<>>
  /\ last = [op |-> "new", args |-> <<>>, ok |-> TRUE, err |-> "", n |-> 0, val |-> <<>>,
             pre_buf |-> <<>>, pre_fds |-> <<>>, pre_sig |-> <<>>,
             pre_buf_idx |-> 0, pre_sig_idx |-> 0, prev_err |-> ""]
  /\ typ = "Invalid" /\ flags = 0 /\ dynheader = DefaultHeader
  /\ stage = "validate_marshalled"

VariantSpec == VariantInit /\ [][ValidateNext]_vars

\* ---------------------------------------------------------------- loop spec
\* The validation of one array or dict, a loop iteration at a time.  stage
\* is "caller" before the call, "validate_marshalled" when it has begun,
\* "while" in the loop of the Array or Dict arm and "returned" after the
\* return, whose result is in last.
LoopInit ==
  /\ byteorder \in ByteOrders
  /\ buf = <<>> /\ raw_fds = <<>> /\ sig = <<>>
  /\ parsing = FALSE /\ buf_idx = 0 /\ sig_idx = 0
  /\ calls = 0 /\ bytes_used_counter = 0
  /\ pushed = <<>>
  /\ last = [op |-> "new", args |-> <<>>, ok |-> TRUE, err |-> "", n |-> 0, val |-> <<>>,
             pre_buf |-> <<>>, pre_fds |-> <<>>, pre_sig |-> <<>>,
             pre_buf_idx |-> 0, pre_sig_idx |-> 0, prev_err |-> ""]
  /\ typ = "Invalid" /\ flags = 0 /\ dynheader = DefaultHeader
  /\ stage = "caller"

\* validate_marshalled is called with a buffer, an offset and the type of a
\* collection
CallValidateMarshalled ==
  /\ stage = "caller"
  /\ \E c \in RawContents(byteorder), offset \in {0, 1}, declared \in 0..MaxClaim, cut \in {0, 1} :
       /\ buf' = RawBuffer(byteorder, c[1], c[2], offset, declared, FALSE, Len(c[2]) + 4 - cut)
       /\ sig' = to_str(c[1])
       /\ buf_idx' = offset
  /\ stage' = "validate_marshalled"
  /\ UNCHANGED <<byteorder, raw_fds, parsing, sig_idx, calls, pushed, last, bytes_used_counter>>
  /\ UNCHANGED <<typ, flags, dynheader>>

LoopType == parse_description(sig).ts[1]

LoopHeader == collection_header(byteorder, buf_idx, buf, LoopType)

\* `&buf[..array_end]`, `buf_for_dict`
LoopView == SubSeq(buf, 1, LoopHeader.offset + LoopHeader.len)

Return(r) ==
  /\ stage' = "returned"
  /\ last' = Obs("validate_marshalled", <<>>, r.ok, r.err, r.n, <<>>)
  /\ UNCHANGED bytes_used_counter

\* the checks before the loop: an Err, the answer for elements whose bytes
\* are always valid, or the loop entered with bytes_used_counter = 0
EnterCollection ==
  /\ stage = "validate_marshalled"
  /\ IF ~LoopHeader.ok THEN Return(LoopHeader)
     ELSE IF LoopType.k = "array" /\ bytes_always_valid(LoopType.sub[1])
     THEN Return(IF LoopHeader.len % get_alignment(LoopType.sub[1]) # 0
                 THEN VErr(LoopHeader.offset, "NotEnoughBytes")
                 ELSE VOk(LoopHeader.n + LoopHeader.len))
     ELSE stage' = "while" /\ bytes_used_counter' = 0 /\ UNCHANGED last
  /\ UNCHANGED <<byteorder, buf, raw_fds, sig, parsing, buf_idx, sig_idx, calls, pushed>>
  /\ UNCHANGED <<typ, flags, dynheader>>

\* the body of a loop that returned r: the counter moves, or `?` returns
Iteration(r) ==
  /\ IF r.ok
     THEN bytes_used_counter' = r.n /\ UNCHANGED <<stage, last>>
     ELSE Return(r)
  /\ UNCHANGED <<byteorder, buf, raw_fds, sig, parsing, buf_idx, sig_idx, calls, pushed>>
  /\ UNCHANGED <<typ, flags, dynheader>>

ArrayIteration ==
  /\ stage = "while" /\ LoopType.k = "array"
  /\ bytes_used_counter < LoopHeader.len
  /\ \E r \in {array_iteration(byteorder, LoopHeader.offset, LoopView, LoopType.sub[1],
                              bytes_used_counter)} : Iteration(r)

DictIteration ==
  /\ stage = "while" /\ LoopType.k = "dict"
  /\ bytes_used_counter < LoopHeader.len
  /\ \E r \in {dict_iteration(byteorder, LoopHeader.offset, LoopView, LoopType,
                             bytes_used_counter)} : Iteration(r)

\* the loop condition is false: Ok(total_bytes_used)
LeaveLoop ==
  /\ stage = "while"
  /\ bytes_used_counter >= LoopHeader.len
  /\ Return(VOk(LoopHeader.n + (IF LoopType.k = "array" THEN LoopHeader.len
                                ELSE bytes_used_counter)))
  /\ UNCHANGED <<byteorder, buf, raw_fds, sig, parsing, buf_idx, sig_idx, calls, pushed>>
  /\ UNCHANGED <<typ, flags, dynheader>>

LoopNext ==
  \/ CallValidateMarshalled
  \/ EnterCollection
  \/ ArrayIteration
  \/ DictIteration
  \/ LeaveLoop

\* a call that has begun runs until it returns
LoopSpec == LoopInit /\ [][LoopNext]_vars /\ WF_vars(LoopNext)

\* ---------------------------------------------------------------- body spec
\* MarshalledMessageBody::from_parts
from_parts(b, fds, s, bo) == Body(b, fds, s, bo)

\* the parameters of the bodies handed to from_parts
BodyParams ==
  {<<>>,
   <<U8(1)>>,
   <<U8(1), U32(5)>>,
   <<Str(<<97>>), U64(4)>>,
   <<Array(BaseT("u"), <<U32(1)>>), U8(2)>>}

\* bytes that follow the parameters in the buffer
BodyRests == {<<>>, <<0>>, <<7>>, <<0, 0, 0, 0>>}

\* a body made of parts: the signature of all but the last `dropped` of the
\* parameters ps, the bytes of all of ps without the last `cut` bytes, and
\* the bytes rest behind them
BodyInit ==
  /\ byteorder \in ByteOrders
  /\ \E ps \in BodyParams, rest \in BodyRests, cut \in {0, 1} :
       \E dropped \in 0..Len(ps) :
         LetStep(marshal_params(ps, Ctx(<<>>, <<>>, byteorder)).buf, LAMBDA b :
           LetStep(from_parts(SubSeq(b, 1, IF Len(b) > cut THEN Len(b) - cut ELSE 0) \o rest, <<>>,
                          to_str_all(signature_all(SubSeq(ps, 1, Len(ps) - dropped))),
                          byteorder), LAMBDA body :
             buf = body.buf /\ raw_fds = body.raw_fds /\ sig = body.sig))
  /\ parsing = FALSE /\ buf_idx = 0 /\ sig_idx = 0
  /\ calls = 0 /\ bytes_used_counter = 0
  /\ pushed = <<>>
  /\ last = [op |-> "new", args |-> <<>>, ok |-> TRUE, err |-> "", n |-> 0, val |-> <<>>,
             pre_buf |-> <<>>, pre_fds |-> <<>>, pre_sig |-> <<>>,
             pre_buf_idx |-> 0, pre_sig_idx |-> 0, prev_err |-> ""]
  /\ typ = "Invalid" /\ flags = 0 /\ dynheader = DefaultHeader
  /\ stage = "MarshalledMessageBody"

\* MarshalledMessageBody::validate: the position of an error is dropped
Validate ==
  /\ LetStep(validate(CurBody), LAMBDA r :
       last' = Obs("validate", <<>>, r.ok, r.err, 0, <<>>))
  /\ UNCHANGED <<byteorder, buf, raw_fds, sig, parsing, buf_idx, sig_idx, calls, pushed>>
  /\ UNCHANGED <<envelope, bytes_used_counter>>

BodyNext == Validate

BodySpec == BodyInit /\ [][BodyNext]_vars

\* -------------------------------------------------------------- parser spec
\* the parameters of the bodies a parser is made for
ParserParams ==
  {<<>>,
   <<U8(1), U32(5)>>,
   <<Str(<<97>>), U64(4)>>,
   <<U8(7), Fd(3)>>,
   <<Array(BaseT("u"), <<U32(1)>>), U8(2)>>,
   <<Struct(<<U8(1), Bool(1)>>), EmptyMap>>,
   <<U8(1), Array(BaseT("t"), <<>>)>>,
   <<NestedMap, EmptyMap>>,
   <<Variant(BaseT("u"), U32(5)), U8(9)>>}

\* MessageBodyParser::new on a body made of parts: the bytes and fds of the
\* parameters ps, followed by the bytes rest, and the signature of ps
ParserInit ==
  /\ byteorder \in ByteOrders
  /\ \E ps \in ParserParams, rest \in {<<>>, <<0>>} :
       LetStep(marshal_params(ps, Ctx(<<>>, <<>>, byteorder)), LAMBDA ctx :
         LetStep(from_parts(ctx.buf \o rest, ctx.fds, to_str_all(signature_all(ps)), byteorder),
             LAMBDA body :
               buf = body.buf /\ raw_fds = body.raw_fds /\ sig = body.sig /\ pushed = ps))
  /\ parsing = TRUE /\ buf_idx = 0 /\ sig_idx = 0
  /\ calls = 0 /\ bytes_used_counter = 0
  /\ last = [op |-> "parser", args |-> <<>>, ok |-> TRUE, err |-> "", n |-> 0, val |-> <<>>,
             pre_buf |-> <<>>, pre_fds |-> <<>>, pre_sig |-> <<>>,
             pre_buf_idx |-> 0, pre_sig_idx |-> 0, prev_err |-> ""]
  /\ typ = "Invalid" /\ flags = 0 /\ dynheader = DefaultHeader
  /\ stage = "MarshalledMessageBody"

ParserNext ==
  \/ Get
  \/ Get2
  \/ GetParam

ParserSpec == ParserInit /\ [][ParserNext]_vars

\* ------------------------------------------------------------- properties
\* the body as the last call found it
PreBody == Body(last.pre_buf, last.pre_fds, last.pre_sig, byteorder)

\* the last call was a push named in ops and returned Err
FailedPush(ops) == last.op \in ops /\ ~last.ok

\* the three sequences of the body are what they were before the last call
BodyRestored == buf = last.pre_buf /\ raw_fds = last.pre_fds /\ sig = last.pre_sig

\* C1: a push_param that returns Err leaves buf, raw_fds and sig exactly as
\* they were before the call, whatever the failing marshal had written
C1_PushParamAtomic == FailedPush({"push_param"}) => BodyRestored

MultOps == {"push_param2", "push_param3", "push_param4", "push_param5"}

\* C2: push_param2..5 are all-or-nothing: after an Err the body is what it was
\* before the call, after an Ok it is the body N push_param calls in argument
\* order produce, and the N arguments are the last N values pushed
C2_PushMultTransactional ==
  last.op \in MultOps =>
    IF last.ok
    THEN /\ push_calls(PreBody, last.args) = PushRes(TRUE, CurBody, last.args)
         /\ sig = last.pre_sig \o to_str_all(signature_all(last.args))
         /\ Len(pushed) >= Len(last.args)
         /\ SubSeq(pushed, Len(pushed) - Len(last.args) + 1, Len(pushed)) = last.args
    ELSE BodyRestored

\* a push_param3 onto a body that is not empty whose third argument fails
\* after the first two wrote an fd each
C2_RolledBack ==
  /\ FailedPush({"push_param3"})
  /\ last.args = <<Fd(3), Fd(3), BadStruct>>
  /\ last.pre_buf # <<>> /\ last.pre_fds # <<>> /\ last.pre_sig # <<>>

\* C3: a push_variant that returns Err leaves buf, raw_fds and sig as they
\* were: no stray "v" stays in sig
C3_PushVariantAtomic == FailedPush({"push_variant"}) => BodyRestored

\* C4: a push_old_param that returns Err, at whatever depth of the value the
\* failure arose, leaves buf, raw_fds and sig as they were
C4_PushOldParamAtomic == FailedPush({"push_old_param"}) => BodyRestored

\* C5: push_params and push_old_params are all-or-nothing: when an element of
\* the slice fails, none of the elements before it stays in the body
C5_PushSliceTransactional == FailedPush({"push_params", "push_old_params"}) => BodyRestored

\* C6: after reset buf, raw_fds and sig are empty, and every push behaves on
\* the body as it does on a fresh one
C6_ResetEmpties ==
  last.op = "reset" =>
    /\ buf = <<>> /\ raw_fds = <<>> /\ sig = <<>>
    /\ \A p \in TypedVals : push_param(CurBody, p) = push_param(with_byteorder(byteorder), p)

\* C7: in every reachable state of a body validate() is Ok, that is buf
\* validates against sig and the validated bytes are all of buf
C7_BodyValid == validate(CurBody).ok

\* the number of "h" in a signature
CountH(s) == Cardinality({i \in DOMAIN s : s[i] = "h"})

\* C8: raw_fds holds one entry for each "h" marshalled into the body, so its
\* length is the number of "h" in sig (no value here holds an array of fds)
\* and no fd of a failed or reset push stays behind
C8_FdConsistent == Len(raw_fds) = CountH(sig)

\* the position, among the parameters of the body, of the token the cursor
\* was at when the last call began
TokenAtCursor == sigs_left_at(sig, 0) - sigs_left_at(sig, last.pre_sig_idx) + 1

\* C9: a get that returns WrongSignature moves neither index, and the get
\* that follows mismatching gets with a matching type succeeds and returns
\* the parameter pushed at that position
C9_MismatchKeepsCursor ==
  /\ (last.op = "get" /\ last.err = "WrongSignature") =>
       (buf_idx = last.pre_buf_idx /\ sig_idx = last.pre_sig_idx)
  /\ (last.op = "get" /\ last.prev_err = "WrongSignature" /\ last.err # "WrongSignature") =>
       /\ last.ok
       /\ TokenAtCursor <= Len(pushed)
       /\ last.val = <<pushed[TokenAtCursor]>>

\* C10: an Ok get or get_param moves buf_idx by the bytes the unmarshal
\* consumed and sig_idx by the length of the token, so that one parameter
\* less is left; an Err moves neither index; both calls move the one cursor
C10_CursorAdvance ==
  last.op \in {"get", "get_param"} =>
    IF last.ok
    THEN /\ buf_idx = last.pre_buf_idx + last.n
         /\ sig_idx = last.pre_sig_idx + Len(get_next_sig_at(sig, last.pre_sig_idx))
         /\ sigs_left_at(sig, sig_idx) = sigs_left_at(sig, last.pre_sig_idx) - 1
         /\ parsing
    ELSE buf_idx = last.pre_buf_idx /\ sig_idx = last.pre_sig_idx /\ parsing

\* a get_param that read a parameter with a token of several characters
\* after an earlier read had moved the cursor
C10_ReadAfterRead ==
  /\ last.op = "get_param" /\ last.ok
  /\ last.pre_sig_idx > 0 /\ last.pre_buf_idx > 0
  /\ Len(get_next_sig_at(sig, last.pre_sig_idx)) > 1
  /\ last.prev_err = ""

MultiGetOps == {"get2", "get3", "get4", "get5"}

\* C11: a get2..5 that returns an error, whichever read inside it failed and
\* whatever the error, leaves buf_idx and sig_idx at their values before the
\* call: the reads that had succeeded inside it are undone
C11_MultiGetTransactional ==
  (last.op \in MultiGetOps /\ ~last.ok) =>
    (buf_idx = last.pre_buf_idx /\ sig_idx = last.pre_sig_idx)

\* a get3 whose first two reads succeeded and whose third met another type
C11_UndoneReads ==
  /\ last.op = "get3" /\ ~last.ok /\ last.err = "WrongSignature"
  /\ last.args = <<BaseT("h"), BaseT("h"), BaseT("y")>>
  /\ get_calls([buf_idx |-> last.pre_buf_idx, sig_idx |-> last.pre_sig_idx], CurBody,
               <<BaseT("h"), BaseT("h")>>).ok

OnlyPushed == push_calls(with_byteorder(byteorder), pushed) = PushRes(TRUE, CurBody, pushed)

C14_IsSetTestsBit ==
  /\ \A f \in HeaderFlags : is_set(f, flags) <=> BitAnd(flags, into_raw(f)) # 0
  /\ last.op = "set" => is_set(last.args[1], flags)

EmptyBody == buf = <<>> /\ raw_fds = <<>> /\ sig = <<>>

\* the states the builders leave: a new message is Invalid, without flags,
\* header fields and body; call and signal set the type and their fields;
\* what build returns is a Call or a Signal
BuilderStates ==
  /\ last.op = "new" =>
       typ = "Invalid" /\ flags = 0 /\ dynheader = DefaultHeader /\ EmptyBody
  /\ last.op = "call" =>
       typ = "Call" /\ dynheader = [DefaultHeader EXCEPT !.member = Some(last.args[1])]
  /\ last.op = "signal" =>
       /\ typ = "Signal"
       /\ dynheader = [DefaultHeader EXCEPT !.interface = Some(last.args[1]),
                                            !.member = Some(last.args[2]),
                                            !.object = Some(last.args[3])]
  /\ last.op = "build" => typ \in {"Call", "Signal"}

\* the field of dynheader a fluent setter writes
SetterField ==
  [on |-> "object", with_interface |-> "interface", at |-> "destination", to |-> "destination"]

\* a step of a fluent setter writes its own header field and nothing else
SetterStep ==
  last'.op \in DOMAIN SetterField =>
    /\ dynheader' = [dynheader EXCEPT ![SetterField[last'.op]] = Some(last'.args[1])]
    /\ typ' = typ /\ flags' = flags
    /\ buf' = buf /\ raw_fds' = raw_fds /\ sig' = sig

\* C15: a new message has typ Invalid, flags 0, an empty header and an empty
\* body; call sets typ Call and member, signal sets typ Signal and interface,
\* member, object; on, with_interface, at, to set their own header field only
\* and never the type; so what build() returns is a Call or a Signal
C15_TypeLifecycle == []BuilderStates /\ [][SetterStep]_vars

\* a built call on which every fluent setter of the CallBuilder was used
C15_BuiltCall ==
  /\ last.op = "build" /\ typ = "Call"
  /\ dynheader.object # None /\ dynheader.interface # None /\ dynheader.destination # None

\* C16: make_response and make_error_response give a Reply with flags 0,
\* destination the sender of h, response_serial the serial of h, error_name
\* the given name for the error response and no other header field; the body
\* is empty without a text, and with a text it holds the one string (sig "s");
\* building it never fails
C16_Responses ==
  /\ last.op = "make_response" =>
       /\ typ = "Reply" /\ flags = 0 /\ EmptyBody
       /\ dynheader = [DefaultHeader EXCEPT !.destination = last.args[1].sender,
                                            !.response_serial = last.args[1].serial]
  /\ last.op = "make_error_response" =>
       /\ last.ok
       /\ typ = "Reply" /\ flags = 0
       /\ dynheader = [DefaultHeader EXCEPT !.destination = last.args[1].sender,
                                            !.response_serial = last.args[1].serial,
                                            !.error_name = Some(last.args[2])]
       /\ IF last.args[3] = None THEN EmptyBody
          ELSE /\ sig = <<"s">> /\ raw_fds = <<>>
               /\ validate(CurBody).ok
               /\ get([buf_idx |-> 0, sig_idx |-> 0], CurBody, BaseT("s")) =
                    GetRes(TRUE, "", Len(buf), 1, Len(buf), <<Str(last.args[3][1])>>)

\* an error response with a text to a header that has a sender and a serial
C16_ErrorWithText ==
  /\ last.op = "make_error_response"
  /\ last.args[3] = Some(<<97>>)
  /\ last.args[1].sender # None /\ last.args[1].serial # None

\* the last call was push_old_param of an array or a dict and returned Ok
CollectionPushed == last.op = "push_old_param" /\ last.ok /\ last.args[1].k \in {"array", "dict"}

\* where the last call put the length placeholder: the end of the buffer it
\* found, padded to 4
LenPos == Len(last.pre_buf) + PadLen(4, Len(last.pre_buf))

\* the alignment of the elements of the collection of the last call
ElemAlign == IF last.args[1].k = "dict" THEN 8 ELSE get_alignment(last.args[1].dsig[1])

\* where the first element starts: the position after the placeholder padded
\* to the alignment of the elements
ContentPos == LenPos + 4 + PadLen(ElemAlign, LenPos + 4)

\* C17: the u32 in the placeholder of a dynamic array or dict is the number
\* of bytes from the start of the first element, after the padding to the
\* element alignment (8 for a dict), to the end of the last element: the
\* padding before the first element is written as zeros and not counted, the
\* padding between elements is counted, an empty collection has length 0 and
\* still has the leading padding; [[4u64]] and {"a": 4u32} give the bytes of
\* the examples
C17_LengthPrefix ==
  CollectionPushed =>
    /\ Len(buf) >= ContentPos
    /\ SubSeq(buf, 1, LenPos) = pad_to_align(4, last.pre_buf)
    /\ U32Value(byteorder, SubSeq(buf, LenPos + 1, LenPos + 4)) = Len(buf) - ContentPos
    /\ \A i \in (LenPos + 5)..ContentPos : buf[i] = 0
    /\ last.args[1].sub = <<>> => Len(buf) = ContentPos
    /\ (last.args[1] = NestedArray /\ last.pre_buf = <<>> /\ byteorder = "LittleEndian") =>
         buf = <<12, 0, 0, 0, 8, 0, 0, 0, 4, 0, 0, 0, 0, 0, 0, 0>>
    /\ (last.args[1] = Dict(BaseT("s"), BaseT("u"), <<Str(<<97>>), U32(4)>>)
          /\ last.pre_buf = <<>> /\ byteorder = "LittleEndian") =>
         buf = <<12, 0, 0, 0, 0, 0, 0, 0, 1, 0, 0, 0, 97, 0, 0, 0, 4, 0, 0, 0>>

\* an array of two one-byte structs pushed at an odd offset: padding before
\* the placeholder, before the first element and between the elements
C17_PaddedArray ==
  /\ CollectionPushed
  /\ last.args[1].k = "array" /\ Len(last.args[1].sub) = 2
  /\ Len(last.pre_buf) % 4 = 1
  /\ ContentPos > LenPos + 4
  /\ Len(buf) - ContentPos = 9

\* C18: marshalling an array or a dict whose content is longer than 2^26
\* bytes fails and writes no length; no marshal that succeeds writes a length
\* above 2^26 or a length that is not the length of the content
C18_ArraySizeLimit ==
  last.op = "marshal_array" =>
    /\ last.args[1] > MaxArrayLen => ~last.ok
    /\ last.ok => (last.val[1] <= MaxArrayLen /\ last.val[1] = last.args[1])

\* C19: push_old_param of a Variant whose declared signature is not the
\* signature of the value it holds returns an error, so the signature
\* written into the buffer describes the bytes after it
C19_VariantSigChecked ==
  (last.op = "push_old_param" /\ last.args[1].k = "variant"
     /\ last.args[1].dsig[1] # signature(last.args[1].sub[1])) => ~last.ok

\* the sample the buffer of this run was made from
CurSample == CHOOSE s \in Samples(byteorder) : to_str(s.t) = sig /\ s.offset = buf_idx

\* the gaps of the buffer that hold a byte that is not zero
DirtyGaps ==
  {g \in DOMAIN CurSample.gaps :
     \E i \in (CurSample.gaps[g][1] + 1)..(CurSample.gaps[g][1] + CurSample.gaps[g][2]) :
       buf[i] # 0}

\* the offset at which the first of these gaps starts
FirstDirtyStart == CurSample.gaps[CHOOSE g \in DirtyGaps : \A h \in DirtyGaps : g <= h][1]

\* the last call was validate_marshalled and returned PaddingContainedData
\* with the start of the first gap that holds data as the position
PaddingReported ==
  ~last.ok /\ last.err = "PaddingContainedData" /\ last.n = FirstDirtyStart

\* with zeros in its gaps the buffer validates, or fails behind the start of
\* the first gap that holds data
GapReached ==
  Let(validate_marshalled(byteorder, buf_idx, CurSample.raw, CurSample.t), LAMBDA r :
    r.ok \/ r.n > FirstDirtyStart)

\* C20 as stated: whenever a byte of an alignment gap is not zero,
\* validate_marshalled fails with PaddingContainedData and reports the offset
\* at which that padding starts, for base types, arrays (gap before the
\* length, gap before the first element), dict entries and structs
C20_PaddingAlwaysReported ==
  (last.op = "validate_marshalled" /\ DirtyGaps # {}) => PaddingReported

\* C20: when a byte of an alignment gap is not zero and the validation does
\* not fail at or before the start of that gap for another reason (it is Ok,
\* or fails later, once the gaps are zero), validate_marshalled fails with
\* PaddingContainedData and reports the offset at which the padding of the
\* first such gap starts; a buffer that holds no such byte is never refused
\* with PaddingContainedData
C20_PaddingReported ==
  last.op = "validate_marshalled" =>
    /\ (DirtyGaps # {} /\ GapReached) => PaddingReported
    /\ DirtyGaps = {} => last.err # "PaddingContainedData"

\* data in the gap before the first element of an array of u64 that is
\* validated from offset 5, the gap before its length holding zeros
C20_FirstElementGap ==
  /\ last.op = "validate_marshalled"
  /\ sig = <<"a", "t">> /\ buf_idx = 5
  /\ DirtyGaps = {2}
  /\ GapReached
  /\ last.n = 12

\* the collection type the buffer is validated against
RawType == parse_description(sig).ts[1]

\* the offsets of the length field of the collection, of the byte after it,
\* and of the first element
RawLenPos == buf_idx + PadLen(4, buf_idx)
AfterLen == RawLenPos + 4
ContentStart ==
  AfterLen + PadLen(IF RawType.k = "dict" THEN 8 ELSE get_alignment(RawType.sub[1]), AfterLen)

\* the last call validated a collection whose length field is in the buffer
\* behind padding of zeros
CollectionValidated ==
  /\ last.op = "validate_marshalled"
  /\ RawType.k \in {"array", "dict"}
  /\ Len(buf) >= AfterLen
  /\ \A i \in (buf_idx + 1)..RawLenPos : buf[i] = 0

\* the content length the length field claims
Declared == U32Value(byteorder, SubSeq(buf, RawLenPos + 1, AfterLen))

\* the padding between the length field and the first element is in the
\* buffer and holds zeros
CleanGap == Len(buf) >= ContentStart /\ \A i \in (AfterLen + 1)..ContentStart : buf[i] = 0

\* an Ok never counts more bytes than the buffer holds from the offset on,
\* and the collection it accepted ends inside the buffer
WithinBuffer ==
  /\ last.err # "panic"
  /\ last.ok => (buf_idx + last.n <= Len(buf) /\ ContentStart + Declared <= Len(buf))

\* C21 as stated: a collection that claims more bytes than the buffer holds
\* after the length field, or after the padding behind it, is refused with
\* NotEnoughBytesForCollection
C21_OverclaimAlwaysForCollection ==
  CollectionValidated =>
    /\ (\/ Declared > Len(buf) - AfterLen
        \/ Len(buf) >= ContentStart /\ Declared > Len(buf) - ContentStart) =>
         (~last.ok /\ last.err = "NotEnoughBytesForCollection")
    /\ WithinBuffer

\* C21: a collection that claims more bytes than the buffer holds after the
\* length field is refused with NotEnoughBytesForCollection at that position;
\* one that fits there but claims more than the buffer holds after the
\* padding is refused too: with NotEnoughBytesForCollection at the first
\* element when the padding is whole and zero, with the error of the padding
\* otherwise; an Ok never counts more bytes than the buffer holds from the
\* offset on
C21_OverclaimRefused ==
  CollectionValidated =>
    /\ Declared > Len(buf) - AfterLen =>
         (~last.ok /\ last.err = "NotEnoughBytesForCollection" /\ last.n = AfterLen)
    /\ (Declared <= Len(buf) - AfterLen /\ Declared > Len(buf) - ContentStart) =>
         /\ ~last.ok
         /\ IF CleanGap
            THEN last.err = "NotEnoughBytesForCollection" /\ last.n = ContentStart
            ELSE last.err \in {"PaddingContainedData", "NotEnoughBytes"} /\ last.n = AfterLen
    /\ WithinBuffer

\* an array of u64 whose eight bytes are there after the length field but
\* not after the four bytes of padding
C21_FitsBeforePadding ==
  /\ CollectionValidated
  /\ sig = <<"a", "t">>
  /\ Declared = 8 /\ Len(buf) - AfterLen = 8 /\ ContentStart = AfterLen + 4
  /\ CleanGap
  /\ last.err = "NotEnoughBytesForCollection" /\ last.n = ContentStart

\* the validator reached the elements of the collection: the padding behind
\* the length field is whole and zero and the claimed bytes are in the buffer
ContentsReached == CollectionValidated /\ CleanGap /\ ContentStart + Declared <= Len(buf)

\* the part of the buffer that ends where the collection claims to end
DeclaredView == SubSeq(buf, 1, ContentStart + Declared)

\* the elements of the collection walked one by one in DeclaredView
ElementWalk ==
  IF RawType.k = "array"
  THEN validate_array_elems(byteorder, ContentStart, DeclaredView, RawType.sub[1], 0, Declared)
  ELSE validate_dict_entries(byteorder, ContentStart, DeclaredView, RawType, 0, Declared)

\* C22: the elements of an array or dict are validated in the part of the
\* buffer that ends at the declared end of the collection: the result is the
\* one the buffer cut at that end gives, so an element that claims bytes
\* beyond it fails although the buffer holds them; and in a collection that
\* validates the elements end exactly at the declared end
C22_ElementsContained ==
  ContentsReached =>
    /\ Let(validate_marshalled(byteorder, buf_idx, DeclaredView, RawType), LAMBDA r :
         r.ok = last.ok /\ r.n = last.n /\ r.err = last.err)
    /\ last.ok =>
         /\ last.n = ContentStart + Declared - buf_idx
         /\ ~bytes_always_valid(RawType.sub[1]) => ElementWalk = VOk(Declared)
    /\ (RawType.k = "array" /\ ~bytes_always_valid(RawType.sub[1]) /\ ~ElementWalk.ok) => ~last.ok

\* an array of strings that claims ten bytes, whose one string claims ten
\* characters, all fifteen bytes of which are in the buffer
C22_StringBeyondArray ==
  /\ ContentsReached
  /\ sig = <<"a", "s">> /\ Declared = 10
  /\ Len(buf) = ContentStart + 15
  /\ U32Value(byteorder, SubSeq(buf, ContentStart + 1, ContentStart + 4)) = 10
  /\ ~last.ok

\* C23: an array whose elements are always valid (y, u, t here, not b) is
\* accepted without a walk exactly when the declared length is a multiple of
\* the element alignment; success, byte count and failure are those of a
\* walk of the same bytes element by element
C23_FastPath ==
  (ContentsReached /\ RawType.k = "array") =>
    IF bytes_always_valid(RawType.sub[1])
    THEN /\ last.ok <=> Declared % get_alignment(RawType.sub[1]) = 0
         /\ last.ok => last.n = ContentStart + Declared - buf_idx
         /\ ElementWalk.ok = last.ok
         /\ ElementWalk.ok => ElementWalk.n = Declared
         /\ ~last.ok => (last.err = "NotEnoughBytes" /\ ElementWalk.err = "NotEnoughBytes")
    ELSE RawType.sub[1] = BaseT("b") => (last.ok = ElementWalk.ok /\ last.err = ElementWalk.err)

\* an array of u32 that claims six of its eight bytes
C23_PartialElement ==
  /\ ContentsReached
  /\ sig = <<"a", "u">> /\ Declared = 6 /\ Len(buf) = ContentStart + 8
  /\ ~last.ok

\* the top-level types of sig validated one after another from offset 0,
\* each from where the one before it ended
TypesWalk == validate_types(byteorder, buf, parse_description(sig).ts, 0)

\* C24: validate() is Ok only if the top-level types of sig, validated one
\* after another from offset 0, use exactly the bytes of buf; types that
\* validate and leave bytes behind give NotAllBytesUsed, so an empty sig
\* with bytes in buf is never accepted; empty sig and empty buf are valid
C24_ExactCoverage ==
  last.op = "validate" =>
    /\ last.ok <=> \/ sig = <<>> /\ buf = <<>>
                   \/ parse_description(sig).ok /\ TypesWalk.ok /\ TypesWalk.n = Len(buf)
    /\ (parse_description(sig).ok /\ TypesWalk.ok /\ TypesWalk.n # Len(buf)) =>
         last.err = "NotAllBytesUsed"
    /\ (sig = <<>> /\ buf # <<>>) => ~last.ok
    /\ (~last.ok /\ last.err # "NotAllBytesUsed") => last.err = TypesWalk.err
    /\ sig = <<"y", "u">> =>
         (last.ok <=>
            /\ validate_marshalled(byteorder, 0, buf, BaseT("y")) = VOk(1)
            /\ validate_marshalled(byteorder, 1, buf, BaseT("u")) = VOk(7)
            /\ Len(buf) = 8)

\* a body whose string validates and is followed by the padding and the bytes
\* of a u64 that sig does not name
C24_TrailingParameter ==
  /\ last.op = "validate"
  /\ sig = <<"s">> /\ TypesWalk = VOk(6) /\ Len(buf) = 16
  /\ last.err = "NotAllBytesUsed"

\* the signature field of the variant at the cursor, as the validator reads it
EmbeddedField == unmarshal_signature(From(buf, buf_idx))

\* the embedded signature is one complete type and nothing else
OneCompleteType ==
  /\ parse_one(EmbeddedField.str, 1).ok
  /\ parse_one(EmbeddedField.str, 1).next = Len(EmbeddedField.str) + 1

VariantValidated == last.op = "validate_marshalled" /\ sig = <<"v">> /\ EmbeddedField.ok

\* C25 as stated: a variant whose embedded signature is not exactly one
\* complete top-level type fails with WrongSignature
C25_WrongSignatureUnlessOneType ==
  (VariantValidated /\ ~OneCompleteType) => (~last.ok /\ last.err = "WrongSignature")

\* C25: a variant whose embedded signature parses into zero or into two or
\* more top-level types fails with WrongSignature at the variant's offset; an
\* embedded signature that is no sequence of complete types fails with the
\* signature error; with exactly one type the value behind the signature
\* field is validated against it and a success uses the bytes of the field
\* plus the bytes of the value
C25_VariantSignature ==
  VariantValidated =>
    /\ (parse_description(EmbeddedField.str).ok /\ ~OneCompleteType) =>
         (~last.ok /\ last.err = "WrongSignature" /\ last.n = buf_idx)
    /\ ~parse_description(EmbeddedField.str).ok =>
         (~last.ok /\ last.err = "InvalidSignature" /\ last.n = buf_idx)
    /\ OneCompleteType =>
         Let(validate_marshalled(byteorder, buf_idx + EmbeddedField.n, buf,
                                 parse_one(EmbeddedField.str, 1).t), LAMBDA v :
           /\ last.ok = v.ok
           /\ v.ok => last.n = EmbeddedField.n + v.n
           /\ ~v.ok => (last.err = v.err /\ last.n = v.n))

\* a variant with the embedded signature "uu" and the bytes of two u32
C25_TwoTypes ==
  /\ VariantValidated
  /\ EmbeddedField.str = <<"u", "u">>
  /\ Len(buf) = buf_idx + EmbeddedField.n + 8
  /\ last.err = "WrongSignature"

\* a variant with the embedded signature "u", padding and a u32
C25_OneType ==
  /\ VariantValidated
  /\ EmbeddedField.str = <<"u">> /\ buf_idx = 0
  /\ last.ok /\ last.n = 8

\* the signature strings of the parameters pushed successfully, in push order
PushedSig == to_str_all(signature_all(pushed))

SigPushOps == {"push_param", "push_param2", "push_old_param"}

\* C26: a body starts with the empty sig; each successful push_param,
\* push_paramN and push_old_param extends sig by exactly the signature
\* strings of its parameters, in argument order, so that after a sequence of
\* successful pushes sig is the concatenation of the signatures of all the
\* parameters pushed, in push order
C26_SigAccumulates ==
  /\ sig = PushedSig
  /\ [][(calls' = calls + 1 /\ last'.ok /\ last'.op \in SigPushOps) =>
          /\ sig' = sig \o to_str_all(signature_all(last'.args))
          /\ sig = PushedSig => sig' = PushedSig']_vars

\* the body of test_marshal_trait: the nested map, then the empty map
C26_NestedThenEmptyMap ==
  /\ byteorder = "LittleEndian"
  /\ pushed = <<NestedMap, EmptyMap>>
  /\ last.ok /\ last.op = "push_param"
  /\ sig = <<"a", "{", "s", "a", "{", "s", "u", "}", "}", "a", "{", "s", "u", "}">>
  /\ buf = <<28, 0, 0, 0, 0, 0, 0, 0, 1, 0, 0, 0, 97, 0, 0, 0, 12, 0, 0, 0, 0, 0, 0, 0,
             1, 0, 0, 0, 97, 0, 0, 0, 4, 0, 0, 0, 0, 0, 0, 0>>

\* C27: a successful push_variant(p) extends sig by the one character "v" and
\* appends to buf the signature of p as a signature field (u8 length, the
\* characters, NUL) followed by the bytes p's marshal writes behind it
C27_VariantPush ==
  (last.op = "push_variant" /\ last.ok) =>
    Let(last.pre_buf \o SignatureField(to_str(signature(last.args[1]))), LAMBDA field :
      /\ sig = last.pre_sig \o <<"v">>
      /\ SubSeq(buf, 1, Len(field)) = field
      /\ buf = marshal(last.args[1], Ctx(field, last.pre_fds, byteorder)).buf
      /\ (last.pre_buf = <<>> /\ last.args[1] = U8(7)) => buf = <<1, 121, 0, 7>>)

\* a struct (ts) pushed as a variant behind a byte: the field "(ts)", a byte
\* of padding, then the struct
C27_StructAsVariant ==
  /\ last.op = "push_variant" /\ last.ok
  /\ last.args = <<Struct(<<U64(100), Str(<<65>>)>>)>>
  /\ last.pre_sig = <<"y">> /\ last.pre_buf = <<7>>
  /\ sig = <<"y", "v">>
  /\ SubSeq(buf, 1, 9) = <<7, 4, 40, 116, 115, 41, 0, 0, 0>>
  /\ Len(buf) = 22

\* the bits of fl other than f's
OtherBits(f, fl) == BitAnd(fl, 255 - into_raw(f))

\* f's bit of fl: 0 or into_raw(f)
OwnBit(f, fl) == BitAnd(fl, into_raw(f))

\* C28: for every flag f and every value of flags, toggle flips exactly f's
\* bit (a set flag is cleared, a clear one set, so two toggles restore the
\* value), unset clears exactly f's bit, and set, unset and toggle leave the
\* other bits as they were
C28_FlagHelpers ==
  [][\A f \in HeaderFlags :
       /\ (last'.op = "toggle" /\ last'.args = <<f>>) =>
            (OwnBit(f, flags') = into_raw(f) - OwnBit(f, flags)
             /\ toggle(f, flags') = flags)
       /\ (last'.op = "unset" /\ last'.args = <<f>>) => OwnBit(f, flags') = 0
       /\ (last'.op \in {"set", "unset", "toggle"} /\ last'.args = <<f>>) =>
            OtherBits(f, flags') = OtherBits(f, flags)]_vars

ReadOps == {"get", "get2", "get_param"}

\* s[1..i] and s[i+1..] are both sequences of complete types
TokenBoundary(s, i) ==
  parse_description(SubSeq(s, 1, i)).ok /\ parse_description(From(s, i)).ok

\* C29: on a body for which validate() is Ok, after any sequence of get, getN
\* and get_param calls, successful or not, buf_idx is in 0..buf.len() and
\* sig_idx in 0..sig.len(), sig_idx is at the boundary of two top-level
\* tokens, neither index is smaller than it was when the last call began,
\* and sig_idx = sig.len() exactly when buf_idx = buf.len()
C29_CursorInvariant ==
  (parsing /\ validate(CurBody).ok) =>
    /\ buf_idx \in 0..Len(buf)
    /\ sig_idx \in 0..Len(sig)
    /\ TokenBoundary(sig, sig_idx)
    /\ last.op \in ReadOps => (last.pre_buf_idx <= buf_idx /\ last.pre_sig_idx <= sig_idx)
    /\ sig_idx = Len(sig) <=> buf_idx = Len(buf)

\* the end of the body reached by a get_param that read the empty map behind
\* the nested one
C29_EndReached ==
  /\ parsing /\ validate(CurBody).ok
  /\ pushed = <<NestedMap, EmptyMap>>
  /\ last.op = "get_param" /\ last.ok /\ last.pre_sig_idx = 9
  /\ sig_idx = Len(sig) /\ buf_idx = Len(buf)

\* C30: a validation of an array or dict that has begun returns: every iteration of the
\* loops `while bytes_used_counter < declared length` that does not return
\* an Err adds at least one byte to the counter and never takes it past the
\* declared length, and what is returned is the result of validate_marshalled
C30_Terminates ==
  /\ (stage = "validate_marshalled") ~> (stage = "returned")
  /\ [][(stage = "while" /\ stage' = "while") =>
          /\ bytes_used_counter' > bytes_used_counter
          /\ bytes_used_counter' <= LoopHeader.len]_vars
  /\ [](stage = "returned" =>
          [ok |-> last.ok, n |-> last.n, err |-> last.err]
            = validate_marshalled(byteorder, buf_idx, buf, LoopType))

\* the loop over an array of two strings left after two iterations
C30_TwoElements ==
  /\ stage = "returned" /\ last.ok
  /\ LoopType = ArrayT(BaseT("s"))
  /\ bytes_used_counter = 13 /\ LoopHeader.len = 13

====
